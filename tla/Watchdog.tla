------------------------------ MODULE Watchdog ------------------------------
(***************************************************************************)
(* audio::Watchdog (roc_audio/watchdog.cpp), which looks at every frame of *)
(* a receiver session and ends the session when it plays nothing, or       *)
(* nothing but stutter, for too long.                                      *)
(*                                                                         *)
(* Positions wrap.  The history keeps the flags of the last samples        *)
(* played, to say what "for too long" means without positions.             *)
(***************************************************************************)
EXTENDS Serial, SequencesExt

CONSTANTS
    PosMod,        \* number of stream positions
    MaxBlank,      \* max_blank_duration_
    MaxDrops,      \* max_drops_duration_
    DropsWindow,   \* drops_detection_window_
    Warmup,        \* warmup_duration_
    FrameLens,     \* samples in a frame
    FrameFlags     \* sets of flags that a frame may have

VARIABLES
    dog,      \* the watchdog
    recent,   \* history: the flags of the last samples played, oldest first
    total,    \* history: samples played, up to Warmup + MaxBlank
    heard     \* history: a frame was not blank

dogVars == <<dog, recent, total, heard>>

Init ==
    /\ dog = [pos |-> 0, beforeBlank |-> Warmup % PosMod, beforeDrops |-> 0,
              warmup |-> Warmup # 0, flags |-> {}, alive |-> TRUE]
    /\ recent = <<>>
    /\ total = 0
    /\ heard = FALSE

\* Unsigned subtraction of positions.
Since(a, b) == (a - b) % PosMod

\* update_blank_timeout_()
UpdateBlankTimeout(d, next, flags) ==
    IF MaxBlank # 0 /\ "NotBlank" \in flags
    THEN [d EXCEPT !.beforeBlank = next, !.warmup = FALSE]
    ELSE d

\* check_blank_timeout_()
CheckBlankTimeout(d) ==
    \/ MaxBlank = 0
    \/ d.warmup
    \/ Since(d.pos, d.beforeBlank) < MaxBlank

\* update_drops_timeout_(): at the end of a window, the position moves on
\* unless the window had both an incomplete frame and a dropped packet.
UpdateDropsTimeout(d, next, flags) ==
    LET end == ((d.pos \div DropsWindow) * DropsWindow + DropsWindow) % PosMod
        seen == d.flags \cup flags
    IN  IF MaxDrops = 0 THEN d
        ELSE IF ~SerialLe(end, next, PosMod) THEN [d EXCEPT !.flags = seen]
        ELSE [d EXCEPT !.flags = IF next % DropsWindow = 0 THEN {} ELSE flags,
                       !.beforeDrops = IF {"NotComplete", "PacketDrops"} \subseteq seen
                                       THEN @ ELSE next]

\* Mutant: the timeout is twice as long.
CheckDropsLate(d) ==
    MaxDrops = 0 \/ Since(d.pos, d.beforeDrops) < 2 * MaxDrops

\* check_drops_timeout_()
CheckDropsTimeout(d) ==
    MaxDrops = 0 \/ Since(d.pos, d.beforeDrops) < MaxDrops

\* update_warmup_()
UpdateWarmup(d) == [d EXCEPT !.warmup = @ /\ d.pos < Warmup]

\* How many samples the history keeps.
Kept == MaxDrops + MaxBlank

\* read()
Read(n, flags) ==
    /\ dog.alive
    /\ LET next == (dog.pos + n) % PosMod
           updated == UpdateDropsTimeout(UpdateBlankTimeout(dog, next, flags),
                                         next, flags)
           moved == [updated EXCEPT !.pos = next]
           played == recent \o [k \in 1..n |-> flags]
       IN  /\ dog' = UpdateWarmup([moved EXCEPT
                        !.alive = CheckDropsTimeout(moved) /\ CheckBlankTimeout(moved)])
           /\ recent' = IF Len(played) <= Kept THEN played
                        ELSE SubSeq(played, Len(played) - Kept + 1, Len(played))
    /\ total' = Min({total + n, Warmup + MaxBlank})
    /\ heard' = (heard \/ "NotBlank" \in flags)

Next == \E n \in FrameLens, flags \in FrameFlags : Read(n, flags)

Spec == Init /\ [][Next]_dogVars

-----------------------------------------------------------------------------
(* Properties *)

TypeOK ==
    /\ {dog.pos, dog.beforeBlank, dog.beforeDrops} \subseteq 0..PosMod - 1
    /\ {dog.warmup, dog.alive, heard} \subseteq BOOLEAN
    /\ Len(recent) <= Kept

\* The last n samples.
Latest(n) == SubSeq(recent, Len(recent) - n + 1, Len(recent))

\* For MaxBlank samples nothing was played, and, if nothing ever was, warmup
\* had been over when these samples began.
NoPlayback ==
    /\ Len(recent) >= MaxBlank
    /\ \A k \in DOMAIN Latest(MaxBlank) : "NotBlank" \notin Latest(MaxBlank)[k]
    /\ heard \/ total = Warmup + MaxBlank

\* For MaxDrops samples there was no stretch without both incomplete frames
\* and dropped packets.  A stretch is long enough to hold a whole window
\* wherever it begins, also the longer window where positions wrap.
Choppy ==
    LET s == Latest(MaxDrops)
        stretch == 3 * DropsWindow - 2
    IN  /\ Len(recent) >= MaxDrops
        /\ \A i \in 1..(MaxDrops - stretch + 1) :
              {"NotComplete", "PacketDrops"}
                  \subseteq UNION {s[k] : k \in i..(i + stretch - 1)}

\* watchdog.h, is_alive() and WatchdogConfig: the session ends only after
\* no_playback_timeout without sound, or after choppy_playback_timeout of
\* stutter, also where positions wrap and during warmup.
WatchdogEndsOnlyBroken == dog.alive \/ NoPlayback \/ Choppy

\* A session that has played nothing for the whole timeout is ended, with the
\* very frame that completes the timeout.
WatchdogEndsSilent == NoPlayback => ~dog.alive

\* A session where every frame is incomplete and drops packets is ended, one
\* window after the timeout at the latest.
WatchdogEndsChoppy ==
    LET n == MaxDrops + 2 * DropsWindow - 1
    IN  (Len(recent) >= n
           /\ \A k \in DOMAIN Latest(n) :
                {"NotComplete", "PacketDrops"} \subseteq Latest(n)[k])
        => ~dog.alive

\* watchdog.h:38, "Maximum allowed period during which every drop detection
\* window overlaps with at least one frame which caused packet drops and with
\* at least one frame which is incomplete": whatever the window (the
\* constructor allows any up to the timeout), a session with sound that was
\* ended had both among the samples that the history keeps.
WatchdogEndsOnlyDropping ==
    (~dog.alive /\ ~NoPlayback)
        => {"NotComplete", "PacketDrops"}
              \subseteq UNION Range(recent)
=============================================================================
