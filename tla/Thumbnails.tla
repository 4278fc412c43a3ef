----------------------------- MODULE Thumbnails -----------------------------
(***************************************************************************)
(* ThumbnailGenerator.generate (src/src/media/thumbnails.py), as the event *)
(* loop and the sync worker's thread call it: the loop for a request that  *)
(* needs a thumbnail and for the sync of an upload, the worker for its own *)
(* sync.  The calls share <item>.tmp.jpg and <item>.webp and no lock; the  *)
(* service's InFlightDeduplicator is created and never asked (app.py:50).  *)
(***************************************************************************)
CONSTANTS Threads, Items,
          Framed   \* the items whose picture ffmpeg extracts: video and audio

VARIABLES
  at,    \* Threads -> "idle", "ffmpeg", "extracting", "open", "saving",
         \*            "badge", "drawing"
  item,  \* Threads -> the item the thread makes a thumbnail of, or "none"
  temp,  \* Items -> what the .tmp.jpg is: "none", "partial", "whole"
  dest   \* Items -> what the .webp is: "none", "partial", "picture", "badge"

thumbVars == <<at, item, temp, dest>>

ThumbInit == /\ at = [t \in Threads |-> "idle"]
             /\ item = [t \in Threads |-> "none"]
             /\ temp = [i \in Items |-> "none"]
             /\ dest = [i \in Items |-> "none"]

Goes(t, where) == at' = [at EXCEPT ![t] = where]

Leaves(t) == Goes(t, "idle") /\ item' = [item EXCEPT ![t] = "none"]

(* generate: an existing thumbnail is the answer and nothing changes.      *)
Generate(t, i) ==
  /\ at[t] = "idle" /\ dest[i] = "none"
  /\ item' = [item EXCEPT ![t] = i]
  /\ Goes(t, IF i \in Framed THEN "ffmpeg" ELSE "open")
  /\ UNCHANGED <<temp, dest>>

(* ffmpeg -y truncates the temporary frame.                                *)
ExtractFrame(t) ==
  /\ at[t] = "ffmpeg"
  /\ temp' = [temp EXCEPT ![item[t]] = "partial"]
  /\ Goes(t, "extracting")
  /\ UNCHANGED <<item, dest>>

AlsoExtracting(t) ==
  \E u \in Threads \ {t} : at[u] = "extracting" /\ item[u] = item[t]

(* It ends well, or it fails or times out and a badge is drawn instead.    *)
FrameExtracted(t) ==
  /\ at[t] = "extracting"
  /\ \/ /\ temp' = [temp EXCEPT ![item[t]] = IF AlsoExtracting(t) THEN "partial" ELSE "whole"]
        /\ Goes(t, "open")
     \/ UNCHANGED temp /\ Goes(t, "badge")
  /\ UNCHANGED <<item, dest>>

(* Image.open: a frame that is missing (unlinked by another thread) or     *)
(* half-written, or an image that cannot be read, ends in a badge.         *)
OpenPicture(t) ==
  /\ at[t] = "open"
  /\ \/ /\ item[t] \in Framed => temp[item[t]] = "whole"
        /\ dest' = [dest EXCEPT ![item[t]] = "partial"]
        /\ Goes(t, "saving")
     \/ UNCHANGED dest /\ Goes(t, "badge")
  /\ UNCHANGED <<item, temp>>

(* img.save has written dest, in one write; the frame is unlinked.         *)
SavePicture(t) ==
  /\ at[t] = "saving"
  /\ dest' = [dest EXCEPT ![item[t]] = "picture"]
  /\ temp' = [temp EXCEPT ![item[t]] = "none"]
  /\ Leaves(t)

DrawBadge(t) ==
  /\ at[t] = "badge"
  /\ dest' = [dest EXCEPT ![item[t]] = "partial"]
  /\ Goes(t, "drawing")
  /\ UNCHANGED <<item, temp>>

SaveBadge(t) ==
  /\ at[t] = "drawing"
  /\ dest' = [dest EXCEPT ![item[t]] = "badge"]
  /\ Leaves(t)
  /\ UNCHANGED temp

ThumbNext ==
  \E t \in Threads :
    \/ \E i \in Items : Generate(t, i)
    \/ ExtractFrame(t) \/ FrameExtracted(t) \/ OpenPicture(t)
    \/ SavePicture(t) \/ DrawBadge(t) \/ SaveBadge(t)

ThumbSpec == ThumbInit /\ [][ThumbNext]_thumbVars

-----------------------------------------------------------------------------
(* docs/media/supported-formats.md: "Simultaneous requests for the same    *)
(* media generation share a single background processing future."  Then no *)
(* two threads are ever making the thumbnail of one item.                  *)
GenerationIsShared ==
  \A t, u \in Threads : item[t] = item[u] /\ item[t] # "none" => t = u

(* And then a thumbnail that is finished would be final: no late loser     *)
(* draws its badge over a picture.                                         *)
FinishedStays ==
  [][\A i \in Items : dest[i] \in {"picture", "badge"} => dest'[i] = dest[i]]_thumbVars
=============================================================================
