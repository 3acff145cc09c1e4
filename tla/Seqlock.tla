------------------------------ MODULE Seqlock ------------------------------
(***************************************************************************)
(* Seqlock (roc_core/seqlock_impl.cpp): a value of several words that one  *)
(* thread replaces while others copy it word by word, and the version by   *)
(* which a copy is recognised as torn.  Every step is one access to shared *)
(* memory; the fences are taken to make the accesses sequentially          *)
(* consistent.  A word holds the number of the store that wrote it.        *)
(* exclusive_store() is try_store() by the only thread that stores, whose  *)
(* compare-and-exchange cannot fail: the case of a single storer.          *)
(***************************************************************************)
EXTENDS Naturals

CONSTANTS
    Storers,     \* threads that call try_store()
    Loaders,     \* threads that call try_load() or wait_load()
    Waiting,     \* those of them that call wait_load()
    Words,       \* size of the value
    HalfMod,     \* versions wrap at 2 * HalfMod
    Overtake,    \* bound: stores begun while one try_load_() runs
    MaxStores    \* bound: stores

VerMod == 2 * HalfMod

\* A load is not overtaken by so many stores that the version comes round:
\* 2^31 of them, as versions have 32 bits.
ASSUME SeqlockAssumption ==
    /\ Words \in Nat \ {0}
    /\ HalfMod \in Nat \ {0} /\ Overtake \in Nat /\ Overtake < HalfMod
    /\ MaxStores \in Nat
    /\ Waiting \subseteq Loaders

VARIABLES
    ver,                   \* ver_
    val,                   \* the value
    spc, sver, spos,       \* where a storer is; ver0; the next word to copy
    lpc, lver, lpos, got,  \* where a loader is; ver0; the next word; its copy
    tries,                 \* try_load_repeat(): how many tries have begun
    done, odd,             \* history: the version without wrapping is 2 * done + odd
    begun, begunOdd        \* history: done and odd when the try began

seqVars == <<ver, val, spc, sver, spos, lpc, lver, lpos, got, tries, done, odd, begun, begunOdd>>

Word == 1..Words

SeqInit ==
    /\ ver = 0 /\ done = 0 /\ odd = 0
    /\ val = [k \in Word |-> 0]
    /\ spc = [s \in Storers |-> "idle"]
    /\ sver = [s \in Storers |-> 0] /\ spos = [s \in Storers |-> 1]
    /\ lpc = [l \in Loaders |-> "idle"]
    /\ lver = [l \in Loaders |-> 0] /\ lpos = [l \in Loaders |-> 1]
    /\ got = [l \in Loaders |-> [k \in Word |-> 0]]
    /\ tries = [l \in Loaders |-> 0]
    /\ begun = [l \in Loaders |-> 0] /\ begunOdd = [l \in Loaders |-> 0]

loadVars == <<lpc, lver, lpos, got, tries, begun, begunOdd>>
storeVars == <<ver, val, spc, sver, spos, done, odd>>

\* try_store() reads the version, and fails if a store is running.
StoreBegin(s) ==
    /\ spc[s] = "idle" /\ done < MaxStores
    /\ sver' = [sver EXCEPT ![s] = ver]
    /\ spc' = [spc EXCEPT ![s] = IF ver % 2 = 1 THEN "idle" ELSE "cas"]
    /\ UNCHANGED <<ver, val, spos, done, odd, loadVars>>

\* The compare-and-exchange that makes the version odd.
StoreLock(s) ==
    /\ spc[s] = "cas" /\ done < MaxStores
    /\ \A l \in Loaders : lpc[l] \in {"copy", "check"} => done - begun[l] < Overtake
    /\ IF ver = sver[s]
       THEN /\ ver' = (sver[s] + 1) % VerMod
            /\ odd' = 1
            /\ spc' = [spc EXCEPT ![s] = "copy"]
            /\ spos' = [spos EXCEPT ![s] = 1]
       ELSE /\ spc' = [spc EXCEPT ![s] = "idle"]
            /\ UNCHANGED <<ver, odd, spos>>
    /\ UNCHANGED <<val, sver, done, loadVars>>

\* volatile_copy() of the new value.
StoreWord(s) ==
    /\ spc[s] = "copy"
    /\ val' = [val EXCEPT ![spos[s]] = done + 1]
    /\ spos' = [spos EXCEPT ![s] = @ + 1]
    /\ spc' = [spc EXCEPT ![s] = IF spos[s] = Words THEN "publish" ELSE "copy"]
    /\ UNCHANGED <<ver, sver, done, odd, loadVars>>

\* The version becomes even again.
StorePublish(s) ==
    /\ spc[s] = "publish"
    /\ ver' = (sver[s] + 2) % VerMod
    /\ done' = done + 1 /\ odd' = 0
    /\ spc' = [spc EXCEPT ![s] = "idle"]
    /\ UNCHANGED <<val, sver, spos, loadVars>>

\* try_load_() reads the version.
LoadBegin(l) ==
    /\ lpc[l] \in {"idle", "again"}
    /\ lver' = [lver EXCEPT ![l] = ver]
    /\ begun' = [begun EXCEPT ![l] = done] /\ begunOdd' = [begunOdd EXCEPT ![l] = odd]
    /\ tries' = [tries EXCEPT ![l] = IF lpc[l] = "idle" THEN 1 ELSE IF @ < 3 THEN @ + 1 ELSE @]
    /\ lpos' = [lpos EXCEPT ![l] = 1]
    /\ lpc' = [lpc EXCEPT ![l] = "copy"]
    /\ UNCHANGED <<got, storeVars>>

\* volatile_copy() of the value.
LoadWord(l) ==
    /\ lpc[l] = "copy"
    /\ got' = [got EXCEPT ![l][lpos[l]] = val[lpos[l]]]
    /\ lpos' = [lpos EXCEPT ![l] = @ + 1]
    /\ lpc' = [lpc EXCEPT ![l] = IF lpos[l] = Words THEN "check" ELSE "copy"]
    /\ UNCHANGED <<lver, tries, begun, begunOdd, storeVars>>

\* What becomes of a try that failed: try_load_repeat() makes three, wait_load()
\* goes on.
Again(l) == IF l \in Waiting \/ tries[l] < 3 THEN "again" ELSE "idle"

\* Mutant: an odd version is not turned down.
LoadCheckSame(l) ==
    /\ lpc[l] = "check"
    /\ lpc' = [lpc EXCEPT ![l] = IF lver[l] = ver THEN "loaded" ELSE Again(l)]
    /\ UNCHANGED <<lver, lpos, got, tries, begun, begunOdd, storeVars>>

\* try_load_() compares the versions.
LoadCheck(l) ==
    /\ lpc[l] = "check"
    /\ lpc' = [lpc EXCEPT ![l] = IF lver[l] % 2 = 0 /\ lver[l] = ver THEN "loaded" ELSE Again(l)]
    /\ UNCHANGED <<lver, lpos, got, tries, begun, begunOdd, storeVars>>

\* The load returns.
LoadReturn(l) ==
    /\ lpc[l] = "loaded"
    /\ lpc' = [lpc EXCEPT ![l] = "idle"]
    /\ UNCHANGED <<lver, lpos, got, tries, begun, begunOdd, storeVars>>

StorerStep(s) == StoreBegin(s) \/ StoreLock(s) \/ StoreWord(s) \/ StorePublish(s)
LoaderStep(l) == LoadBegin(l) \/ LoadWord(l) \/ LoadCheck(l) \/ LoadReturn(l)

SeqNext == (\E s \in Storers : StorerStep(s)) \/ (\E l \in Loaders : LoaderStep(l))

SeqSpec == SeqInit /\ [][SeqNext]_seqVars

\* The next try of a load.
LoadAgain(l) == lpc[l] = "again" /\ LoadBegin(l)

\* Every thread runs; a store once begun and a load once begun go on.
SeqFair ==
    /\ \A s \in Storers : WF_seqVars(StoreWord(s) \/ StorePublish(s))
    /\ \A l \in Loaders :
          WF_seqVars(LoadAgain(l) \/ LoadWord(l) \/ LoadCheck(l) \/ LoadReturn(l))
-----------------------------------------------------------------------------
Busy(s) == spc[s] \in {"copy", "publish"}

SeqTypeOK ==
    /\ ver \in 0..VerMod - 1 /\ done \in Nat /\ odd \in {0, 1}
    /\ val \in [Word -> Nat]
    /\ spc \in [Storers -> {"idle", "cas", "copy", "publish"}]
    /\ sver \in [Storers -> 0..VerMod - 1] /\ spos \in [Storers -> 1..Words + 1]
    /\ lpc \in [Loaders -> {"idle", "again", "copy", "check", "loaded"}]
    /\ lver \in [Loaders -> 0..VerMod - 1] /\ lpos \in [Loaders -> 1..Words + 1]
    /\ got \in [Loaders -> [Word -> Nat]]
    /\ tries \in [Loaders -> 0..3]
    /\ begun \in [Loaders -> Nat] /\ begunOdd \in [Loaders -> {0, 1}]
    /\ \A s \in Storers : spc[s] = "copy" => spos[s] <= Words
    /\ \A s \in Storers : spc[s] = "publish" => spos[s] = Words + 1
    /\ \A l \in Loaders : lpc[l] = "copy" => lpos[l] <= Words
    /\ \A l \in Loaders : lpc[l] = "check" => lpos[l] = Words + 1

\* "Provides safe concurrent access to a single value": a load that succeeds
\* returns one whole value, and it is the newest one whose store had returned
\* when the load began, however the words of stores and loads interleave and
\* although versions wrap.
SeqlockLoadsWhole ==
    \A l \in Loaders : lpc[l] = "loaded" => \A k \in Word : got[l][k] = begun[l]

\* "only one concurrent call will succeed": two stores never write at once.
SeqlockOneStore == \A s, t \in Storers : Busy(s) /\ Busy(t) => s = t

\* The inductive invariant: the version counts the beginnings and the ends of
\* stores, modulo VerMod;
SeqVersionCounts == ver = (2 * done + odd) % VerMod

\* a store is only tried from an even version;
SeqTriedWhenEven == \A s \in Storers : spc[s] = "cas" => sver[s] % 2 = 0

\* the store that runs began from the last version, and has written a prefix;
SeqStoreRuns ==
    \A s \in Storers : Busy(s) =>
        /\ odd = 1 /\ sver[s] = (2 * done) % VerMod
        /\ \A k \in Word : k < spos[s] => val[k] = done + 1

\* the value is whole while no store runs;
SeqValueWhole == odd = 0 => \A k \in Word : val[k] = done

\* a load that runs knows the version it began from, not long ago, and has copied
\* a prefix of the value if no store has begun since.
SeqLoadFollows(l) ==
    /\ lver[l] = (2 * begun[l] + begunOdd[l]) % VerMod
    /\ 2 * begun[l] + begunOdd[l] <= 2 * done + odd
    /\ done + odd <= begun[l] + begunOdd[l] + Overtake
    /\ (begunOdd[l] = 0 /\ begun[l] = done /\ odd = 0) =>
          \A k \in Word : k < lpos[l] => got[l][k] = begun[l]

SeqLoadsFollow == \A l \in Loaders : lpc[l] \in {"copy", "check"} => SeqLoadFollows(l)

SeqInv ==
    /\ SeqTypeOK /\ SeqVersionCounts /\ SeqlockOneStore /\ SeqTriedWhenEven
    /\ SeqStoreRuns /\ SeqValueWhole /\ SeqLoadsFollow /\ SeqlockLoadsWhole

\* wait_load() returns when the stores come to an end.
SeqlockWaitEnds == \A l \in Waiting : lpc[l] # "idle" ~> lpc[l] = "idle"
=============================================================================
