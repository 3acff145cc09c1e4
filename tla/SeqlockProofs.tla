--------------------------- MODULE SeqlockProofs ---------------------------
(***************************************************************************)
(* A seqlock load returns one whole value, for any number of storers and   *)
(* loaders, any size of the value and any number of versions.              *)
(***************************************************************************)
EXTENDS Seqlock, Integers, TLAPS

-----------------------------------------------------------------------------
(* Arithmetic of numbers that wrap at m *)

LEMMA DivMod ==
    ASSUME NEW m \in Nat \ {0}, NEW a \in Nat
    PROVE  /\ a \div m \in Nat /\ a % m \in 0 .. m - 1
           /\ a = m * (a \div m) + (a % m)
  OBVIOUS

LEMMA Multiple ==
    ASSUME NEW m \in Nat \ {0}, NEW p \in Int, p > 0
    PROVE  m * p >= m
  OBVIOUS

LEMMA Distribute ==
    ASSUME NEW m \in Nat, NEW p \in Int, NEW q \in Int
    PROVE  m * p - m * q = m * (p - q) /\ m * p + m * q = m * (p + q)
  OBVIOUS

LEMMA Remainder ==
    ASSUME NEW m \in Nat \ {0}, NEW p \in Nat, NEW r \in 0 .. m - 1
    PROVE  (m * p + r) % m = r
  OBVIOUS

\* Numbers less than a round apart that wrap to the same version are equal.
LEMMA WrapInjective ==
    ASSUME NEW m \in Nat \ {0}, NEW a \in Nat, NEW b \in Nat,
           a <= b, b - a < m, a % m = b % m
    PROVE  a = b
<1> DEFINE p == a \div m  q == b \div m
<1>1. p \in Nat /\ q \in Nat /\ a % m \in 0 .. m - 1
  BY DivMod, Zenon
<1>2. a = m * p + (a % m) /\ b = m * q + (a % m)
  BY DivMod
<1> HIDE DEF p, q
<1>3. b - a = m * (q - p) /\ a - b = m * (p - q)
  <2>1. m * q - m * p = m * (q - p) /\ m * p - m * q = m * (p - q)
    BY <1>1, Distribute
  <2>2. m * p \in Int /\ m * q \in Int
    BY <1>1
  <2> QED
    BY <1>1, <1>2, <2>1, <2>2
<1>4. CASE q - p > 0
  BY <1>1, <1>3, <1>4, m * (q - p) >= m, Multiple
<1>5. CASE p - q > 0
  BY <1>1, <1>3, <1>5, m * (p - q) >= m, Multiple
<1>6. CASE p = q
  BY <1>1, <1>2, <1>6
<1> QED
  BY <1>1, <1>4, <1>5, <1>6

\* Wrapping before or after an addition makes no difference.
LEMMA WrapPlus ==
    ASSUME NEW m \in Nat \ {0}, NEW a \in Nat, NEW i \in Nat
    PROVE  ((a % m) + i) % m = (a + i) % m
<1> DEFINE p == a \div m  r == a % m  q == (r + i) \div m  s == (r + i) % m
<1>1. p \in Nat /\ r \in 0 .. m - 1 /\ a = m * p + r
  BY DivMod, Zenon
<1>2. r + i \in Nat
  BY <1>1
<1> HIDE DEF p, r
<1>3. q \in Nat /\ s \in 0 .. m - 1 /\ r + i = m * q + s
  BY <1>2, DivMod, Zenon
<1> HIDE DEF q, s
<1>4. a + i = m * (p + q) + s
  <2>1. m * p + m * q = m * (p + q)
    BY <1>1, <1>3, Distribute
  <2>2. m * p \in Int /\ m * q \in Int
    BY <1>1, <1>3
  <2> QED
    BY <1>1, <1>3, <2>1, <2>2
<1>5. (a + i) % m = s
  BY <1>1, <1>3, <1>4, p + q \in Nat, Remainder, Zenon
<1> QED
  BY <1>5 DEF s, r

\* A version is odd exactly when the number it stands for is.
LEMMA WrapParity ==
    ASSUME NEW h \in Nat \ {0}, NEW a \in Nat
    PROVE  (a % (2 * h)) % 2 = a % 2
<1> DEFINE m == 2 * h  p == a \div m  r == a % m  q == r \div 2  s == r % 2
<1>0. m \in Nat \ {0}
  OBVIOUS
<1>1. p \in Nat /\ r \in 0 .. m - 1 /\ a = m * p + r
  BY <1>0, DivMod, Zenon
<1>2. r \in Nat
  BY <1>0, <1>1
<1>3. q \in Nat /\ s \in 0 .. 1 /\ r = 2 * q + s
  BY <1>2, DivMod
<1>4. m * p = 2 * (h * p)
  BY <1>1
<1>5. h * p \in Nat
  BY <1>1
<1> HIDE DEF m, p, r, q, s
<1>6. a = 2 * (h * p + q) + s /\ h * p + q \in Nat
  BY <1>1, <1>3, <1>4, <1>5
<1>7. a % 2 = s
  BY <1>3, <1>6, Remainder
<1> QED
  BY <1>7 DEF s, r, m

-----------------------------------------------------------------------------
LEMMA VersionsNat == VerMod \in Nat \ {0} /\ 1 \in Word /\ Word \subseteq Nat
  BY SeqlockAssumption DEF VerMod, Word

LEMMA InRange == ASSUME NEW a \in Nat PROVE a % VerMod \in 0 .. VerMod - 1
  BY VersionsNat, DivMod

\* The parity of a version tells whether a store is running.
LEMMA VersionParity ==
    ASSUME NEW d \in Nat, NEW o \in {0, 1}
    PROVE  ((2 * d + o) % VerMod) % 2 = o
<1>1. ((2 * d + o) % VerMod) % 2 = (2 * d + o) % 2
  BY SeqlockAssumption, WrapParity, 2 * d + o \in Nat DEF VerMod
<1> QED
  BY <1>1

LEMMA TypesHoldAtFirst == SeqInit => SeqTypeOK
  BY SeqlockAssumption, VersionsNat DEF SeqInit, SeqTypeOK, Word

LEMMA StoresKeepTypes ==
    ASSUME SeqTypeOK, NEW s \in Storers, StorerStep(s)
    PROVE  SeqTypeOK'
<1> USE VersionsNat, SeqlockAssumption
<1>1. CASE StoreBegin(s)
  BY <1>1 DEF StoreBegin, SeqTypeOK, loadVars
<1>2. CASE StoreLock(s)
  <2>1. (sver[s] + 1) % VerMod \in 0 .. VerMod - 1
    BY InRange DEF SeqTypeOK
  <2>2. spc' \in [Storers -> {"idle", "cas", "copy", "publish"}]
        /\ spos' \in [Storers -> 1 .. Words + 1]
    <3>1. CASE ver = sver[s]
      BY <1>2, <3>1, 1 \in 1 .. Words + 1, Zenon DEF StoreLock, SeqTypeOK
    <3>2. CASE ver # sver[s]
      BY <1>2, <3>2 DEF StoreLock, SeqTypeOK
    <3> QED
      BY <3>1, <3>2
  <2>3. \A t \in Storers : (spc'[t] = "copy" => spos'[t] <= Words)
                           /\ (spc'[t] = "publish" => spos'[t] = Words + 1)
    <3>1. CASE ver = sver[s]
      BY <1>2, <3>1 DEF StoreLock, SeqTypeOK
    <3>2. CASE ver # sver[s]
      BY <1>2, <3>2 DEF StoreLock, SeqTypeOK
    <3> QED
      BY <3>1, <3>2
  <2>4. ver' \in 0 .. VerMod - 1 /\ odd' \in {0, 1}
    BY <1>2, <2>1 DEF StoreLock, SeqTypeOK
  <2> QED
    BY <1>2, <2>2, <2>3, <2>4 DEF StoreLock, SeqTypeOK, loadVars
<1>3. CASE StoreWord(s)
  <2>1. spos[s] \in Word
    BY <1>3 DEF StoreWord, SeqTypeOK, Word
  <2>2. val' \in [Word -> Nat]
    BY <1>3, <2>1 DEF StoreWord, SeqTypeOK
  <2>3. spos' \in [Storers -> 1 .. Words + 1] /\ spc' \in [Storers -> {"idle", "cas", "copy", "publish"}]
    BY <1>3, <2>1 DEF StoreWord, SeqTypeOK, Word
  <2>4. \A t \in Storers : (spc'[t] = "copy" => spos'[t] <= Words)
                           /\ (spc'[t] = "publish" => spos'[t] = Words + 1)
    BY <1>3, <2>1 DEF StoreWord, SeqTypeOK, Word
  <2> QED
    BY <1>3, <2>2, <2>3, <2>4 DEF StoreWord, SeqTypeOK, loadVars
<1>4. CASE StorePublish(s)
  <2>1. (sver[s] + 2) % VerMod \in 0 .. VerMod - 1
    BY InRange DEF SeqTypeOK
  <2> QED
    BY <1>4, <2>1 DEF StorePublish, SeqTypeOK, loadVars
<1> QED
  BY <1>1, <1>2, <1>3, <1>4 DEF StorerStep

LEMMA LoadsKeepTypes ==
    ASSUME SeqTypeOK, NEW l \in Loaders, LoaderStep(l)
    PROVE  SeqTypeOK'
<1> USE VersionsNat, SeqlockAssumption
<1>1. CASE LoadBegin(l)
  BY <1>1 DEF LoadBegin, SeqTypeOK, storeVars
<1>2. CASE LoadWord(l)
  <2>1. lpos[l] \in Word
    BY <1>2 DEF LoadWord, SeqTypeOK, Word
  <2>2. got' \in [Loaders -> [Word -> Nat]]
    BY <1>2, <2>1 DEF LoadWord, SeqTypeOK
  <2>3. lpos' \in [Loaders -> 1 .. Words + 1]
        /\ lpc' \in [Loaders -> {"idle", "again", "copy", "check", "loaded"}]
    BY <1>2, <2>1, SMTT(30) DEF LoadWord, SeqTypeOK, Word
  <2>4. \A k \in Loaders : (lpc'[k] = "copy" => lpos'[k] <= Words)
                           /\ (lpc'[k] = "check" => lpos'[k] = Words + 1)
    <3> TAKE k \in Loaders
    <3>1. CASE k = l
      BY <1>2, <2>1, <3>1, SMTT(30) DEF LoadWord, SeqTypeOK, Word
    <3>2. CASE k # l
      BY <1>2, <3>2 DEF LoadWord, SeqTypeOK
    <3> QED
      BY <3>1, <3>2
  <2> QED
    BY <1>2, <2>2, <2>3, <2>4 DEF LoadWord, SeqTypeOK, storeVars
<1>3. CASE LoadCheck(l)
  BY <1>3 DEF LoadCheck, Again, SeqTypeOK, storeVars
<1>4. CASE LoadReturn(l)
  BY <1>4 DEF LoadReturn, SeqTypeOK, storeVars
<1> QED
  BY <1>1, <1>2, <1>3, <1>4 DEF LoaderStep

-----------------------------------------------------------------------------
LEMMA InvHoldsAtFirst == SeqInit => SeqInv
<1> SUFFICES ASSUME SeqInit PROVE SeqInv
  OBVIOUS
<1>1. SeqTypeOK
  BY TypesHoldAtFirst
<1>2. SeqVersionCounts
  BY VersionsNat DEF SeqInit, SeqVersionCounts
<1>3. SeqlockOneStore /\ SeqTriedWhenEven /\ SeqStoreRuns
  BY DEF SeqInit, SeqlockOneStore, SeqTriedWhenEven, SeqStoreRuns, Busy
<1>4. SeqValueWhole /\ SeqLoadsFollow /\ SeqlockLoadsWhole
  BY DEF SeqInit, SeqValueWhole, SeqLoadsFollow, SeqlockLoadsWhole
<1> QED
  BY <1>1, <1>2, <1>3, <1>4 DEF SeqInv

\* A step that changes no version, no count and nothing of the loaders keeps
\* what the invariant says of the loaders.
LEMMA LoadersUndisturbed ==
    ASSUME SeqLoadsFollow, SeqlockLoadsWhole, UNCHANGED <<done, odd, loadVars>>
    PROVE  SeqLoadsFollow' /\ SeqlockLoadsWhole'
<1>1. UNCHANGED <<done, odd, lpc, lver, lpos, got, begun, begunOdd>>
  BY DEF loadVars
<1>2. SeqLoadsFollow'
  BY <1>1, Zenon DEF SeqLoadsFollow, SeqLoadFollows
<1>3. SeqlockLoadsWhole'
  BY <1>1, Zenon DEF SeqlockLoadsWhole
<1> QED
  BY <1>2, <1>3

\* A step of a loader keeps what the invariant says of the storers.
LEMMA StorersUndisturbed ==
    ASSUME SeqInv, UNCHANGED storeVars
    PROVE  /\ SeqVersionCounts' /\ SeqlockOneStore' /\ SeqTriedWhenEven'
           /\ SeqStoreRuns' /\ SeqValueWhole'
<1>1. UNCHANGED <<ver, val, spc, sver, spos, done, odd>>
  BY DEF storeVars
<1>2. SeqVersionCounts' /\ SeqValueWhole'
  BY <1>1, Zenon DEF SeqInv, SeqVersionCounts, SeqValueWhole
<1>3. SeqlockOneStore' /\ SeqTriedWhenEven'
  BY <1>1, Zenon DEF SeqInv, SeqlockOneStore, SeqTriedWhenEven, Busy
<1>4. SeqStoreRuns'
  BY <1>1, Zenon DEF SeqInv, SeqStoreRuns, Busy
<1> QED
  BY <1>2, <1>3, <1>4

LEMMA StoreBeginKeeps ==
    ASSUME SeqInv, NEW s \in Storers, StoreBegin(s)
    PROVE  SeqInv'
<1>1. SeqTypeOK /\ SeqTypeOK'
  BY StoresKeepTypes DEF SeqInv, StorerStep
<1>2. UNCHANGED <<ver, val, spos, done, odd, loadVars>>
  BY DEF StoreBegin
<1>3. \A t \in Storers : /\ t # s => spc'[t] = spc[t] /\ sver'[t] = sver[t]
                         /\ t = s => spc'[t] # "copy" /\ spc'[t] # "publish"
  BY <1>1 DEF StoreBegin, SeqTypeOK
<1>4. SeqTriedWhenEven'
  <2>1. spc'[s] = "cas" => sver'[s] = ver /\ ver % 2 # 1
    BY <1>1 DEF StoreBegin, SeqTypeOK
  <2>2. ver % 2 # 1 => ver % 2 = 0
    BY <1>1, VersionsNat DEF SeqTypeOK
  <2>3. SeqTriedWhenEven
    BY DEF SeqInv
  <2> QED
    BY <1>3, <2>1, <2>2, <2>3, Zenon DEF SeqTriedWhenEven
<1>5. \A t \in Storers : Busy(t)' => Busy(t) /\ t # s
  BY <1>3 DEF Busy
<1>6. SeqlockOneStore'
  BY <1>5 DEF SeqInv, SeqlockOneStore
<1>7. SeqStoreRuns'
  <2>1. SeqStoreRuns
    BY DEF SeqInv
  <2> QED
    BY <1>2, <1>3, <1>5, <2>1, Zenon DEF SeqStoreRuns
<1>8. SeqVersionCounts' /\ SeqValueWhole'
  BY <1>2, Zenon DEF SeqInv, SeqVersionCounts, SeqValueWhole
<1>9. SeqLoadsFollow' /\ SeqlockLoadsWhole'
  BY <1>2, LoadersUndisturbed DEF SeqInv
<1> QED
  BY <1>1, <1>4, <1>6, <1>7, <1>8, <1>9 DEF SeqInv

LEMMA StoreLockKeeps ==
    ASSUME SeqInv, NEW s \in Storers, StoreLock(s)
    PROVE  SeqInv'
<1>1. SeqTypeOK /\ SeqTypeOK'
  BY StoresKeepTypes DEF SeqInv, StorerStep
<1>2. UNCHANGED <<val, sver, done, loadVars>> /\ spc[s] = "cas"
  BY DEF StoreLock
<1>3. /\ SeqVersionCounts /\ SeqlockOneStore /\ SeqTriedWhenEven /\ SeqStoreRuns
      /\ SeqValueWhole /\ SeqLoadsFollow /\ SeqlockLoadsWhole
  BY DEF SeqInv
<1>4. /\ \A t \in Storers : t # s => spc'[t] = spc[t] /\ spos'[t] = spos[t]
      /\ spc'[s] # "cas"
  <2>1. CASE ver = sver[s]
    BY <1>1, <2>1 DEF StoreLock, SeqTypeOK
  <2>2. CASE ver # sver[s]
    BY <1>1, <2>2 DEF StoreLock, SeqTypeOK
  <2> QED
    BY <2>1, <2>2
<1>5. SeqTriedWhenEven'
  BY <1>2, <1>3, <1>4, Zenon DEF SeqTriedWhenEven
<1>6. CASE ver # sver[s]
  <2>1. UNCHANGED <<ver, odd, spos>> /\ spc'[s] = "idle"
    BY <1>1, <1>6 DEF StoreLock, SeqTypeOK
  <2>2. \A t \in Storers : Busy(t)' => Busy(t)
    BY <1>4, <2>1 DEF Busy
  <2>3. SeqlockOneStore'
    BY <1>3, <2>2 DEF SeqlockOneStore
  <2>4. SeqStoreRuns'
    BY <1>2, <1>3, <2>1, <2>2, Zenon DEF SeqStoreRuns
  <2>5. SeqVersionCounts' /\ SeqValueWhole'
    BY <1>2, <1>3, <2>1, Zenon DEF SeqVersionCounts, SeqValueWhole
  <2>6. SeqLoadsFollow' /\ SeqlockLoadsWhole'
    BY <1>2, <1>3, <2>1, LoadersUndisturbed
  <2> QED
    BY <1>1, <1>5, <2>3, <2>4, <2>5, <2>6 DEF SeqInv
<1>7. CASE ver = sver[s]
  <2>1. ver' = (sver[s] + 1) % VerMod /\ odd' = 1 /\ spos'[s] = 1
    BY <1>1, <1>7 DEF StoreLock, SeqTypeOK
  <2>2. \A l \in Loaders : lpc[l] \in {"copy", "check"} => done - begun[l] < Overtake
    BY DEF StoreLock
  <2>3. done \in Nat /\ odd \in {0, 1}
    BY <1>1 DEF SeqTypeOK
  <2>4. odd = 0
    <3>1. sver[s] % 2 = 0
      BY <1>2, <1>3 DEF SeqTriedWhenEven
    <3>2. ((2 * done + odd) % VerMod) % 2 = odd
      BY <2>3, VersionParity
    <3> QED
      BY <1>3, <1>7, <3>1, <3>2, Zenon DEF SeqVersionCounts
  <2>5. sver[s] = (2 * done) % VerMod
    <3>1. 2 * done + odd = 2 * done
      BY <2>3, <2>4
    <3> QED
      BY <1>3, <1>7, <3>1, Zenon DEF SeqVersionCounts
  <2>6. SeqVersionCounts'
    <3>1. (((2 * done) % VerMod) + 1) % VerMod = (2 * done + 1) % VerMod
      BY <2>3, WrapPlus, VersionsNat, 2 * done \in Nat, Zenon
    <3> QED
      BY <1>2, <2>1, <2>5, <3>1, Zenon DEF SeqVersionCounts
  <2>7. \A t \in Storers : Busy(t)' => t = s
    <3>1. \A t \in Storers : ~Busy(t)
      BY <1>3, <2>4 DEF SeqStoreRuns
    <3> QED
      BY <1>4, <3>1 DEF Busy
  <2>8. SeqlockOneStore'
    BY <2>7 DEF SeqlockOneStore
  <2>9. SeqStoreRuns'
    <3>1. \A k \in Word : ~(k < 1)
      BY DEF Word
    <3> QED
      BY <1>2, <2>1, <2>5, <2>7, <3>1, Zenon DEF SeqStoreRuns
  <2>10. SeqValueWhole'
    BY <2>1 DEF SeqValueWhole
  <2>11. UNCHANGED <<lpc, lver, lpos, got, begun, begunOdd>>
    BY <1>2 DEF loadVars
  <2>12. ASSUME NEW l \in Loaders, lpc'[l] \in {"copy", "check"}
         PROVE  SeqLoadFollows(l)'
    <3> DEFINE b == begun[l]  o == begunOdd[l]
    <3>1. lver[l] = (2 * b + o) % VerMod /\ 2 * b + o <= 2 * done + odd
      BY <1>3, <2>11, <2>12 DEF SeqLoadsFollow, SeqLoadFollows
    <3>2. b \in Nat /\ o \in {0, 1}
      BY <1>1 DEF SeqTypeOK
    <3>3. done - b < Overtake
      BY <2>2, <2>11, <2>12
    <3> HIDE DEF b, o
    <3>4. 2 * b + o <= 2 * done + 1 /\ done + 1 <= b + o + Overtake
      BY <2>3, <2>4, <3>1, <3>2, <3>3, SeqlockAssumption
    <3>5. lver'[l] = (2 * b + o) % VerMod /\ begun'[l] = b /\ begunOdd'[l] = o
      BY <2>11, <3>1 DEF b, o
    <3>6. odd' # 0
      BY <2>1
    <3> QED
      BY <1>2, <2>1, <3>4, <3>5, <3>6, Zenon DEF SeqLoadFollows
  <2>13. SeqLoadsFollow' /\ SeqlockLoadsWhole'
    BY <1>3, <2>11, <2>12 DEF SeqLoadsFollow, SeqlockLoadsWhole
  <2> QED
    BY <1>1, <1>5, <2>6, <2>8, <2>9, <2>10, <2>13 DEF SeqInv
<1> QED
  BY <1>6, <1>7

LEMMA StoreWordKeeps ==
    ASSUME SeqInv, NEW s \in Storers, StoreWord(s)
    PROVE  SeqInv'
<1>1. SeqTypeOK /\ SeqTypeOK'
  BY StoresKeepTypes DEF SeqInv, StorerStep
<1>2. UNCHANGED <<ver, sver, done, odd, loadVars>> /\ spc[s] = "copy"
  BY DEF StoreWord
<1>3. /\ SeqVersionCounts /\ SeqlockOneStore /\ SeqTriedWhenEven /\ SeqStoreRuns
      /\ SeqValueWhole /\ SeqLoadsFollow /\ SeqlockLoadsWhole
  BY DEF SeqInv
<1>4. Busy(s) /\ odd = 1
  BY <1>2, <1>3 DEF Busy, SeqStoreRuns
<1>5. /\ \A t \in Storers : t # s => spc'[t] = spc[t]
      /\ spc'[s] # "cas"
  BY <1>1 DEF StoreWord, SeqTypeOK
<1>6. \A t \in Storers : Busy(t)' => t = s
  BY <1>3, <1>4, <1>5 DEF SeqlockOneStore, Busy
<1>7. SeqlockOneStore'
  BY <1>6 DEF SeqlockOneStore
<1>8. SeqTriedWhenEven'
  BY <1>2, <1>3, <1>5, Zenon DEF SeqTriedWhenEven
<1>9. ASSUME NEW k \in Word, k < spos'[s]
      PROVE  val'[k] = done' + 1
  <2>1. spos[s] \in Word
    BY <1>1, <1>2 DEF SeqTypeOK, Word
  <2>2. spos'[s] = spos[s] + 1 /\ val' = [val EXCEPT ![spos[s]] = done + 1]
    BY <1>1 DEF StoreWord, SeqTypeOK
  <2>3. val \in [Word -> Nat]
    BY <1>1 DEF SeqTypeOK
  <2>4. CASE k = spos[s]
    BY <1>2, <2>1, <2>2, <2>3, <2>4
  <2>5. CASE k # spos[s]
    <3>1. k < spos[s]
      <4>1. k \in Nat /\ spos[s] \in Nat /\ k < spos[s] + 1
        BY <1>9, <2>1, <2>2, VersionsNat, Zenon
      <4> QED
        BY <2>5, <4>1
    <3>2. val'[k] = val[k]
      BY <2>2, <2>3, <2>5
    <3> QED
      BY <1>2, <1>3, <1>4, <3>1, <3>2, Zenon DEF SeqStoreRuns
  <2> QED
    BY <2>4, <2>5
<1>10. SeqStoreRuns'
  BY <1>2, <1>3, <1>4, <1>6, <1>9, Zenon DEF SeqStoreRuns
<1>11. SeqVersionCounts'
  BY <1>2, <1>3, Zenon DEF SeqVersionCounts
<1>12. SeqValueWhole'
  BY <1>2, <1>4 DEF SeqValueWhole
<1>13. SeqLoadsFollow' /\ SeqlockLoadsWhole'
  BY <1>2, <1>3, LoadersUndisturbed
<1> QED
  BY <1>1, <1>7, <1>8, <1>10, <1>11, <1>12, <1>13 DEF SeqInv

LEMMA StorePublishKeeps ==
    ASSUME SeqInv, NEW s \in Storers, StorePublish(s)
    PROVE  SeqInv'
<1>1. SeqTypeOK /\ SeqTypeOK'
  BY StoresKeepTypes DEF SeqInv, StorerStep
<1>2. UNCHANGED <<val, sver, spos, loadVars>> /\ spc[s] = "publish"
  BY DEF StorePublish
<1>3. /\ SeqVersionCounts /\ SeqlockOneStore /\ SeqTriedWhenEven /\ SeqStoreRuns
      /\ SeqValueWhole /\ SeqLoadsFollow /\ SeqlockLoadsWhole
  BY DEF SeqInv
<1>4. Busy(s) /\ odd = 1 /\ sver[s] = (2 * done) % VerMod
  BY <1>2, <1>3 DEF Busy, SeqStoreRuns
<1>5. done' = done + 1 /\ odd' = 0 /\ done \in Nat /\ ver' = (sver[s] + 2) % VerMod
  BY <1>1 DEF StorePublish, SeqTypeOK
<1>6. \A t \in Storers : t # s => spc'[t] = spc[t]
  BY <1>1 DEF StorePublish, SeqTypeOK
<1>7. spc'[s] = "idle"
  BY <1>1 DEF StorePublish, SeqTypeOK
<1>8. \A t \in Storers : ~Busy(t)'
  BY <1>3, <1>4, <1>6, <1>7 DEF SeqlockOneStore, Busy
<1>9. SeqlockOneStore' /\ SeqStoreRuns'
  BY <1>8 DEF SeqlockOneStore, SeqStoreRuns
<1>10. SeqTriedWhenEven'
  <2>1. spc'[s] # "cas"
    BY <1>7
  <2> QED
    BY <1>2, <1>3, <1>6, <2>1, Zenon DEF SeqTriedWhenEven
<1>11. SeqVersionCounts'
  <2>1. (((2 * done) % VerMod) + 2) % VerMod = (2 * done + 2) % VerMod
    BY <1>5, WrapPlus, VersionsNat, 2 * done \in Nat
  <2>2. 2 * done' + odd' = 2 * done + 2
    BY <1>5
  <2> QED
    BY <1>4, <1>5, <2>1, <2>2, Zenon DEF SeqVersionCounts
<1>12. SeqValueWhole'
  <2>1. \A k \in Word : k < spos[s]
    <3>1. spos[s] = Words + 1
      BY <1>1, <1>2 DEF SeqTypeOK
    <3> QED
      BY <3>1, SeqlockAssumption DEF Word
  <2> QED
    BY <1>2, <1>3, <1>4, <1>5, <2>1, Zenon DEF SeqStoreRuns, SeqValueWhole
<1>13. UNCHANGED <<lpc, lver, lpos, got, begun, begunOdd>>
  BY <1>2 DEF loadVars
<1>14. ASSUME NEW l \in Loaders, lpc'[l] \in {"copy", "check"}
       PROVE  SeqLoadFollows(l)'
  <2> DEFINE b == begun[l]  o == begunOdd[l]
  <2>1. /\ lver[l] = (2 * b + o) % VerMod /\ 2 * b + o <= 2 * done + odd
        /\ done + odd <= b + o + Overtake
    BY <1>3, <1>13, <1>14 DEF SeqLoadsFollow, SeqLoadFollows
  <2>2. b \in Nat /\ o \in {0, 1}
    BY <1>1 DEF SeqTypeOK
  <2>3. lver'[l] = (2 * b + o) % VerMod /\ begun'[l] = b /\ begunOdd'[l] = o
    BY <1>13, <2>1 DEF b, o
  <2> HIDE DEF b, o
  <2>4. /\ 2 * b + o <= 2 * done' + odd' /\ done' + odd' <= b + o + Overtake
        /\ ~(o = 0 /\ b = done')
    BY <1>4, <1>5, <2>1, <2>2, SeqlockAssumption
  <2> QED
    BY <2>3, <2>4, Zenon DEF SeqLoadFollows
<1>15. SeqLoadsFollow' /\ SeqlockLoadsWhole'
  BY <1>3, <1>13, <1>14 DEF SeqLoadsFollow, SeqlockLoadsWhole
<1> QED
  BY <1>1, <1>9, <1>10, <1>11, <1>12, <1>15 DEF SeqInv

LEMMA LoadBeginKeeps ==
    ASSUME SeqInv, NEW l \in Loaders, LoadBegin(l)
    PROVE  SeqInv'
<1>1. SeqTypeOK /\ SeqTypeOK'
  BY LoadsKeepTypes DEF SeqInv, LoaderStep
<1>2. UNCHANGED storeVars /\ UNCHANGED <<ver, done, odd, got>>
  BY DEF LoadBegin, storeVars
<1>3. SeqVersionCounts /\ SeqLoadsFollow /\ SeqlockLoadsWhole
  BY DEF SeqInv
<1>4. ASSUME NEW m \in Loaders, m # l
      PROVE  /\ lpc'[m] = lpc[m] /\ lver'[m] = lver[m] /\ lpos'[m] = lpos[m]
             /\ begun'[m] = begun[m] /\ begunOdd'[m] = begunOdd[m]
  BY <1>1, <1>4 DEF LoadBegin, SeqTypeOK
<1>5. /\ lpc'[l] = "copy" /\ lver'[l] = ver /\ lpos'[l] = 1
      /\ begun'[l] = done /\ begunOdd'[l] = odd
  BY <1>1 DEF LoadBegin, SeqTypeOK
<1>6. SeqLoadFollows(l)'
  <2>1. \A k \in Word : ~(k < 1)
    BY DEF Word
  <2>2. done \in Nat /\ odd \in {0, 1}
    BY <1>1 DEF SeqTypeOK
  <2>3. 2 * done + odd <= 2 * done + odd /\ done + odd <= done + odd + Overtake
    BY <2>2, SeqlockAssumption
  <2> QED
    BY <1>2, <1>3, <1>5, <2>1, <2>3, Zenon DEF SeqVersionCounts, SeqLoadFollows
<1>7. SeqLoadsFollow'
  <2>1. ASSUME NEW m \in Loaders, m # l, lpc'[m] \in {"copy", "check"}
        PROVE  SeqLoadFollows(m)'
    <3>1. SeqLoadFollows(m)
      BY <1>3, <1>4, <2>1 DEF SeqLoadsFollow
    <3> QED
      BY <1>2, <1>4, <2>1, <3>1, Zenon DEF SeqLoadFollows
  <2> QED
    BY <1>6, <2>1 DEF SeqLoadsFollow
<1>8. SeqlockLoadsWhole'
  <2>1. lpc'[l] # "loaded"
    BY <1>5
  <2> QED
    BY <1>2, <1>3, <1>4, <2>1, Zenon DEF SeqlockLoadsWhole
<1> QED
  BY <1>1, <1>2, <1>7, <1>8, StorersUndisturbed DEF SeqInv

LEMMA LoadWordKeeps ==
    ASSUME SeqInv, NEW l \in Loaders, LoadWord(l)
    PROVE  SeqInv'
<1>1. SeqTypeOK /\ SeqTypeOK'
  BY LoadsKeepTypes DEF SeqInv, LoaderStep
<1>2. UNCHANGED storeVars /\ UNCHANGED <<val, done, odd, lver, begun, begunOdd>>
  BY DEF LoadWord, storeVars
<1>3. SeqValueWhole /\ SeqLoadsFollow /\ SeqlockLoadsWhole
  BY DEF SeqInv
<1>4. ASSUME NEW m \in Loaders, m # l
      PROVE  lpc'[m] = lpc[m] /\ lpos'[m] = lpos[m] /\ got'[m] = got[m]
  BY <1>1, <1>4 DEF LoadWord, SeqTypeOK
<1>5. /\ lpc[l] = "copy" /\ lpc'[l] # "loaded" /\ lpos'[l] = lpos[l] + 1
      /\ got'[l] = [got[l] EXCEPT ![lpos[l]] = val[lpos[l]]]
  BY <1>1 DEF LoadWord, SeqTypeOK
<1>6. lpos[l] \in Word
  BY <1>1, <1>5 DEF SeqTypeOK, Word
<1>7. SeqLoadFollows(l)
  BY <1>3, <1>5 DEF SeqLoadsFollow
<1>8. ASSUME begunOdd[l] = 0, begun[l] = done, odd = 0, NEW k \in Word, k < lpos'[l]
      PROVE  got'[l][k] = begun[l]
  <2>1. got[l] \in [Word -> Nat]
    BY <1>1 DEF SeqTypeOK
  <2>2. CASE k = lpos[l]
    BY <1>3, <1>5, <1>8, <2>1, <2>2 DEF SeqValueWhole
  <2>3. CASE k # lpos[l]
    <3>1. k < lpos[l]
      <4>1. k \in Nat /\ lpos[l] \in Nat /\ k < lpos[l] + 1
        BY <1>5, <1>6, <1>8, VersionsNat, Zenon
      <4> QED
        BY <2>3, <4>1
    <3>2. got'[l][k] = got[l][k]
      BY <1>5, <2>1, <2>3
    <3> QED
      BY <1>7, <1>8, <3>1, <3>2, Zenon DEF SeqLoadFollows
  <2> QED
    BY <2>2, <2>3
<1>9. SeqLoadFollows(l)'
  BY <1>2, <1>7, <1>8, Zenon DEF SeqLoadFollows
<1>10. SeqLoadsFollow'
  <2>1. ASSUME NEW m \in Loaders, m # l, lpc'[m] \in {"copy", "check"}
        PROVE  SeqLoadFollows(m)'
    <3>1. SeqLoadFollows(m)
      BY <1>3, <1>4, <2>1 DEF SeqLoadsFollow
    <3> QED
      BY <1>2, <1>4, <2>1, <3>1, Zenon DEF SeqLoadFollows
  <2> QED
    BY <1>9, <2>1 DEF SeqLoadsFollow
<1>11. SeqlockLoadsWhole'
  <2>1. ASSUME NEW m \in Loaders, lpc'[m] = "loaded"
        PROVE  \A k \in Word : got'[m][k] = begun'[m]
    <3>1. m # l
      BY <1>5, <2>1
    <3> QED
      BY <1>2, <1>3, <1>4, <2>1, <3>1, Zenon DEF SeqlockLoadsWhole
  <2> QED
    BY <2>1 DEF SeqlockLoadsWhole
<1> QED
  BY <1>1, <1>2, <1>10, <1>11, StorersUndisturbed DEF SeqInv

\* Why a load may be trusted: the versions before and after it agree, it was
\* not overtaken by a whole round of them, so no store began or ended meanwhile.
LEMMA LoadCheckKeeps ==
    ASSUME SeqInv, NEW l \in Loaders, LoadCheck(l)
    PROVE  SeqInv'
<1>1. SeqTypeOK /\ SeqTypeOK'
  BY LoadsKeepTypes DEF SeqInv, LoaderStep
<1>2. UNCHANGED storeVars /\ UNCHANGED <<ver, done, odd, lver, lpos, got, begun, begunOdd>>
  BY DEF LoadCheck, storeVars
<1>3. SeqVersionCounts /\ SeqLoadsFollow /\ SeqlockLoadsWhole
  BY DEF SeqInv
<1>4. \A m \in Loaders : m # l => lpc'[m] = lpc[m]
  BY <1>1 DEF LoadCheck, SeqTypeOK
<1>5. lpc[l] = "check" /\ lpc'[l] # "copy" /\ lpc'[l] # "check"
  BY <1>1 DEF LoadCheck, Again, SeqTypeOK
<1>6. ASSUME lpc'[l] = "loaded"
      PROVE  \A k \in Word : got[l][k] = begun[l]
  <2> DEFINE a == 2 * begun[l] + begunOdd[l]  b == 2 * done + odd
  <2>0. SeqLoadFollows(l)
    BY <1>3, <1>5 DEF SeqLoadsFollow
  <2>1. lver[l] % 2 = 0 /\ lver[l] = ver
    BY <1>1, <1>6 DEF LoadCheck, Again, SeqTypeOK
  <2>2. begun[l] \in Nat /\ begunOdd[l] \in {0, 1} /\ done \in Nat /\ odd \in {0, 1}
    BY <1>1 DEF SeqTypeOK
  <2>3. /\ lver[l] = a % VerMod /\ ver = b % VerMod /\ a <= b
        /\ done + odd <= begun[l] + begunOdd[l] + Overtake
    BY <1>3, <2>0, Zenon DEF SeqLoadFollows, SeqVersionCounts
  <2>4. a \in Nat /\ b \in Nat /\ b - a < VerMod
    BY <2>2, <2>3, SeqlockAssumption DEF VerMod
  <2>5. a = b
    BY <2>1, <2>3, <2>4, VersionsNat, WrapInjective, Zenon
  <2>6. begunOdd[l] = 0
    BY <2>1, <2>2, <2>3, VersionParity
  <2>7. begun[l] = done /\ odd = 0
    <3>1. 2 * begun[l] = 2 * done + odd
      BY <2>2, <2>5, <2>6
    <3>2. CASE odd = 0
      BY <2>2, <3>1, <3>2
    <3>3. CASE odd = 1
      BY <2>2, <3>1, <3>3
    <3> QED
      BY <2>2, <3>2, <3>3
  <2>8. \A k \in Word : k < lpos[l]
    <3>1. lpos[l] = Words + 1
      BY <1>1, <1>5 DEF SeqTypeOK
    <3> QED
      BY <3>1, SeqlockAssumption DEF Word
  <2> QED
    BY <2>0, <2>6, <2>7, <2>8, Zenon DEF SeqLoadFollows
<1>7. SeqlockLoadsWhole'
  BY <1>2, <1>3, <1>4, <1>6, Zenon DEF SeqlockLoadsWhole
<1>8. SeqLoadsFollow'
  <2>1. ASSUME NEW m \in Loaders, lpc'[m] \in {"copy", "check"}
        PROVE  SeqLoadFollows(m)'
    <3>1. SeqLoadFollows(m)
      BY <1>3, <1>4, <1>5, <2>1 DEF SeqLoadsFollow
    <3> QED
      BY <1>2, <3>1, Zenon DEF SeqLoadFollows
  <2> QED
    BY <2>1 DEF SeqLoadsFollow
<1> QED
  BY <1>1, <1>2, <1>7, <1>8, StorersUndisturbed DEF SeqInv

LEMMA LoadReturnKeeps ==
    ASSUME SeqInv, NEW l \in Loaders, LoadReturn(l)
    PROVE  SeqInv'
<1>1. SeqTypeOK /\ SeqTypeOK'
  BY LoadsKeepTypes DEF SeqInv, LoaderStep
<1>2. UNCHANGED storeVars /\ UNCHANGED <<done, odd, lver, lpos, got, begun, begunOdd>>
  BY DEF LoadReturn, storeVars
<1>3. SeqLoadsFollow /\ SeqlockLoadsWhole
  BY DEF SeqInv
<1>4. \A m \in Loaders : /\ m # l => lpc'[m] = lpc[m]
                         /\ m = l => lpc'[m] \notin {"copy", "check", "loaded"}
  BY <1>1 DEF LoadReturn, SeqTypeOK
<1>5. \A m \in Loaders : SeqLoadFollows(m) => SeqLoadFollows(m)'
  BY <1>2, Zenon DEF SeqLoadFollows
<1>6. SeqLoadsFollow'
  BY <1>3, <1>4, <1>5 DEF SeqLoadsFollow
<1>7. SeqlockLoadsWhole'
  BY <1>2, <1>3, <1>4 DEF SeqlockLoadsWhole
<1> QED
  BY <1>1, <1>2, <1>6, <1>7, StorersUndisturbed DEF SeqInv

LEMMA InvKept == SeqInv /\ [SeqNext]_seqVars => SeqInv'
<1> SUFFICES ASSUME SeqInv, [SeqNext]_seqVars PROVE SeqInv'
  OBVIOUS
<1>1. ASSUME NEW s \in Storers, StorerStep(s) PROVE SeqInv'
  BY <1>1, StoreBeginKeeps, StoreLockKeeps, StoreWordKeeps, StorePublishKeeps DEF StorerStep
<1>2. ASSUME NEW l \in Loaders, LoaderStep(l) PROVE SeqInv'
  BY <1>2, LoadBeginKeeps, LoadWordKeeps, LoadCheckKeeps, LoadReturnKeeps DEF LoaderStep
<1>3. CASE UNCHANGED seqVars
  <2>1. UNCHANGED storeVars /\ UNCHANGED <<done, odd, loadVars>>
    BY <1>3 DEF seqVars, storeVars, loadVars
  <2>2. SeqTypeOK'
    BY <1>3 DEF seqVars, SeqInv, SeqTypeOK
  <2>3. SeqLoadsFollow' /\ SeqlockLoadsWhole'
    BY <2>1, LoadersUndisturbed DEF SeqInv
  <2> QED
    BY <2>1, <2>2, <2>3, StorersUndisturbed DEF SeqInv
<1> QED
  BY <1>1, <1>2, <1>3 DEF SeqNext

\* For any storers, loaders, size and number of versions: a load that succeeds
\* returns the whole value of the newest store that had ended when it began.
THEOREM LoadsAreWhole == SeqSpec => []SeqlockLoadsWhole
<1>1. SeqInv => SeqlockLoadsWhole
  BY DEF SeqInv
<1> QED
  BY <1>1, InvHoldsAtFirst, InvKept, PTL DEF SeqSpec

\* Under the same assumptions two stores never write at once.
THEOREM OneStoreAtATime == SeqSpec => []SeqlockOneStore
<1>1. SeqInv => SeqlockOneStore
  BY DEF SeqInv
<1> QED
  BY <1>1, InvHoldsAtFirst, InvKept, PTL DEF SeqSpec
=============================================================================
