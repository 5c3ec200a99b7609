------------------------------ MODULE IconAnim ------------------------------
(***************************************************************************)
(* IconAnimHelper: which icon of a file is shown.  Frames that the         *)
(* directory entry lists may lack an image; the last image shown stays.    *)
(* CARD_ANIM_LOOP starts over after the last frame, CARD_ANIM_BOUNCE turns *)
(* around.                                                                 *)
(***************************************************************************)
EXTENDS Integers

CONSTANTS
    MaxIcons,           \* CARD_MAXICONS, 8
    Delays              \* of a frame in ticks: 1 to 3

ASSUME IconAssumption == MaxIcons \in Nat \ {0, 1} /\ Delays \subseteq Nat \ {0}

VARIABLES
    file,               \* of the helper: its frames, images and mode
    enabled,
    frame,
    lastValidFrame,
    delayCnt, delayLen,
    direction,          \* TRUE: backwards
    place               \* history: advances since the script last began

iconVars == <<file, enabled, frame, lastValidFrame, delayCnt, delayLen,
              direction, place>>

NoFile == [speeds |-> <<>>, frames |-> 0, images |-> {}, bounce |-> FALSE]

\* frames: the size of iconSpeed, up to the first CARD_SPEED_END.  images: the
\* frames that have one.
FilesOf(n) ==
    [speeds : [0..(n - 1) -> Delays], frames : {n},
     images : SUBSET (0..(n - 1)), bounce : BOOLEAN]
Files == UNION {FilesOf(n) : n \in 0..MaxIcons}

\* iconCount() > 1: the icons are cut after the last image.
IsAnimated(f) == \E i \in f.images : i > 0
IconDelay(f, i) == IF i \in 0..(f.frames - 1) THEN f.speeds[i] ELSE 0

\* Seeded fault: the frame after the table is read as any other.
IsLastOverrun(i) == IconDelay(file, i + 1) = 0 /\ i # MaxIcons - 1

\* CARD_SPEED_END is 0, the delay of a frame outside the table too.
IsLast(i) == i = MaxIcons - 1 \/ IconDelay(file, i + 1) = 0

\* reset() for a new file.
ResetTo(f) ==
    /\ file' = f
    /\ enabled' = IsAnimated(f)
    /\ frame' = 0 /\ lastValidFrame' = 0
    /\ delayCnt' = 0
    /\ delayLen' = IF IsAnimated(f) THEN IconDelay(f, 0) ELSE 0
    /\ direction' = FALSE
    /\ place' = 0

IconInit ==
    /\ file = NoFile /\ enabled = FALSE
    /\ frame = 0 /\ lastValidFrame = 0
    /\ delayCnt = 0 /\ delayLen = 0
    /\ direction = FALSE /\ place = 0

SetFile(f) == ResetTo(f)

\* file_destroyed_slot()
FileDestroyed == file # NoFile /\ ResetTo(NoFile)

\* The script of a file repeats after this many frames.
Period(f) == IF f.bounce THEN 2 * (f.frames - 1) ELSE f.frames

Waiting ==
    /\ delayCnt + 1 < delayLen
    /\ delayCnt' = delayCnt + 1
    /\ UNCHANGED <<frame, direction, lastValidFrame, delayLen, place>>

NextFrame ==
    /\ delayCnt + 1 >= delayLen
    /\ \/ ~ direction /\ IsLast(frame) /\ file.bounce
          /\ direction' = TRUE /\ frame' = frame - 1
       \/ ~ direction /\ IsLast(frame) /\ ~ file.bounce
          /\ frame' = 0 /\ UNCHANGED direction
       \/ ~ direction /\ ~ IsLast(frame)
          /\ frame' = frame + 1 /\ UNCHANGED direction
       \/ direction
          /\ direction' = (frame # 0) /\ frame' = (IF frame = 0 THEN 1 ELSE frame - 1)
    /\ delayCnt' = 0
    /\ delayLen' = IconDelay(file, frame')
    /\ lastValidFrame' = IF frame' \in file.images THEN frame' ELSE lastValidFrame
    /\ place' = IF place + 1 = Period(file) THEN 0 ELSE place + 1

Tick ==
    /\ enabled
    /\ Waiting \/ NextFrame
    /\ UNCHANGED <<file, enabled>>

IconNext == FileDestroyed \/ Tick \/ \E f \in Files : SetFile(f)

IconSpec == IconInit /\ [][IconNext]_iconVars

-----------------------------------------------------------------------------
\* What an animation shows, from the description of the two modes: frames 0 to
\* n-1 and again, or 0 to n-1 and back to 1.
Script(f, k) == IF k < f.frames THEN k ELSE 2 * (f.frames - 1) - k

\* An animation plays its script: the frame is always one of the file's, the
\* unsigned frame number never runs below 0 or past the table, a frame with an
\* image is shown, and one without leaves an image that was shown before.
IconFollowsScript ==
    enabled =>
        /\ place \in 0..(Period(file) - 1)
        /\ frame = Script(file, place) /\ frame \in 0..(file.frames - 1)
        /\ frame \in file.images => lastValidFrame = frame
        /\ lastValidFrame \in file.images \cup {0}
=============================================================================
