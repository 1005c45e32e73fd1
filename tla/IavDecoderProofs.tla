-------------------------- MODULE IavDecoderProofs --------------------------
(***************************************************************************)
(* Types, the use count of the shared IAV context and the division of the  *)
(* bit-stream buffer, for any finite number of decoders of both versions.  *)
(***************************************************************************)
EXTENDS IavDecoder, FiniteSetTheorems, TLAPS

Alive(e) == life[e] \in {"ready", "running"}

(* Every holder is counted; V1 holds the context from construction on.     *)
CountInv ==
  /\ Cardinality(Holders) <= usedNum
  /\ Holders # {} => isSetup
  /\ \A e \in Elements : holds[e] => Alive(e)
  /\ \A e \in V1 : Alive(e) => holds[e]

(* The mutex of V2 is held from the second test of the mode to the end of  *)
(* the division, and meanwhile only a V1 element can enter the mode.       *)
MutexInv ==
  /\ \A e \in Elements : pc[e] = "lock" => e \in V2
  /\ \A e \in V2 : pc[e] \in {"config", "enter", "divide"} => modeLock = e
  /\ \A e \in V2 : pc[e] \in {"config", "enter"} => entered \notin V2

(* Nobody divides by zero.                                                 *)
NumberInv ==
  /\ entered # NoOne => numDecoder # 0
  /\ \A e \in Elements : pc[e] \in {"enter", "divide"} => numDecoder # 0

(* What f_enter_mode() wrote is what everybody divides by.                 *)
RegionOf(e) == IF e \in V1 THEN V1Region(DecId[e], DriverMax)
                           ELSE V2Region(DecId[e], DriverMax)
ModeInv ==
  ~raced =>
    /\ entered # NoOne => numDecoder = DriverMax
    /\ \A e \in Elements : pc[e] = "divide" => numDecoder = DriverMax
    /\ \A e \in Elements : \/ region[e] = NoRegion
                           \/ region[e] = RegionOf(e) /\ DecId[e] < DriverMax

Inv == TypeOK /\ CountInv /\ MutexInv /\ NumberInv /\ ModeInv

-----------------------------------------------------------------------------
(* Arithmetic of the division. *)

LEMMA Parts ==
  ASSUME NEW n \in Nat \ {0}, NEW i \in Nat, NEW j \in Nat, i < j, j <= n
  PROVE  /\ BsbSize \div n \in Nat
         /\ i * (BsbSize \div n) \in Nat /\ j * (BsbSize \div n) \in Nat
         /\ i * (BsbSize \div n) + BsbSize \div n <= j * (BsbSize \div n)
         /\ j * (BsbSize \div n) <= BsbSize
<1> DEFINE per == BsbSize \div n
<1>1. per \in Nat /\ n * per <= BsbSize BY DecoderAssumption
<1> HIDE DEF per
<1>2. i * per \in Nat /\ j * per \in Nat BY <1>1
<1>3. PICK k \in Nat : j = i + 1 + k
  <2>1. j - i - 1 \in Nat /\ j = i + 1 + (j - i - 1) OBVIOUS
  <2>2. QED BY <2>1
<1>4. PICK l \in Nat : n = j + l
  <2>1. n - j \in Nat /\ n = j + (n - j) OBVIOUS
  <2>2. QED BY <2>1
<1>5. j * per = i * per + per + k * per /\ k * per \in Nat BY <1>1, <1>3
<1>6. n * per = j * per + l * per /\ l * per \in Nat /\ n * per \in Nat BY <1>1, <1>4
<1>7. i * per + per <= j * per BY <1>1, <1>2, <1>5
<1>8. j * per <= BsbSize BY <1>1, <1>2, <1>6, DecoderAssumption
<1>9. QED BY <1>1, <1>2, <1>7, <1>8 DEF per

\* A part lies in the buffer, and a decoder with a smaller dec-id has its
\* part before it.
LEMMA RegionInBuffer ==
  ASSUME NEW n \in {NumDecoders, DriverMax}, NEW e \in Elements
  PROVE  /\ V1Region(DecId[e], n) \in (0 .. BsbSize) \X (0 .. BsbSize)
         /\ DecId[e] < n => V2Region(DecId[e], n) \in (0 .. BsbSize) \X (0 .. BsbSize)
<1> DEFINE i == DecId[e]
<1>1. n \in Nat \ {0} /\ i \in Nat /\ BsbSize \in Nat BY DecoderAssumption
<1>2. NoRegion \in (0 .. BsbSize) \X (0 .. BsbSize) BY <1>1 DEF NoRegion
<1> HIDE DEF i
<1>3. CASE i < n
  <2>0. n \in Nat /\ n <= n BY <1>1
  <2>1. /\ BsbSize \div n \in Nat /\ i * (BsbSize \div n) \in Nat
        /\ n * (BsbSize \div n) \in Nat
        /\ i * (BsbSize \div n) + BsbSize \div n <= n * (BsbSize \div n)
        /\ n * (BsbSize \div n) <= BsbSize
    BY <1>1, <1>3, <2>0, Parts
  <2>2. /\ i * (BsbSize \div n) \in 0 .. BsbSize /\ BsbSize \div n \in 0 .. BsbSize
        /\ BsbSize - i * (BsbSize \div n) \in 0 .. BsbSize
    BY <1>1, <2>1
  <2>3. QED BY <1>3, <2>2 DEF i, V1Region, V2Region
<1>4. CASE ~(i < n) BY <1>2, <1>4 DEF i, V1Region
<1>5. QED BY <1>3, <1>4 DEF i

LEMMA RegionsInOrder ==
  ASSUME NEW e \in Elements, NEW f \in Elements,
         DecId[e] < DecId[f], DecId[f] < DriverMax
  PROVE  RegionOf(e)[1] + RegionOf(e)[2] <= RegionOf(f)[1]
<1> DEFINE i == DecId[e]
           j == DecId[f]
           per == BsbSize \div DriverMax
<1>1. DriverMax \in Nat \ {0} /\ i \in Nat /\ j \in Nat /\ BsbSize \in Nat
  BY DecoderAssumption
<1>2. i * per + per <= j * per BY <1>1, Parts
<1>3. i < DriverMax - 1 /\ i < DriverMax BY <1>1
<1>4. RegionOf(e) = <<i * per, per>>
  BY <1>3 DEF RegionOf, V1Region, V2Region
<1>5. RegionOf(f)[1] = j * per BY DEF RegionOf, V1Region, V2Region
<1>6. QED BY <1>2, <1>4, <1>5

-----------------------------------------------------------------------------
(* Initial states and steps. *)

\* Nobody has the context, the mode or the mutex yet: the invariant holds.
THEOREM InvInit == Init => Inv
<1> SUFFICES ASSUME Init PROVE Inv OBVIOUS
<1>1. Holders = {} BY DEF Init, Holders
<1>2. Cardinality(Holders) = 0 BY <1>1, FS_EmptySet
<1>3. TypeOK
  <2>1. NoRegion \in (0 .. BsbSize) \X (0 .. BsbSize) BY DecoderAssumption DEF NoRegion
  <2>2. starts \in [Elements -> Nat] /\ \A e \in Elements : starts[e] <= MaxStarts[e]
    BY DecoderAssumption DEF Init
  <2>3. QED BY <2>1, <2>2 DEF Init, TypeOK
<1>4. CountInv BY <1>1, <1>2, DecoderAssumption DEF Init, CountInv, Alive, Elements
<1>5. MutexInv /\ NumberInv /\ ModeInv
  BY DecoderAssumption DEF Init, MutexInv, NumberInv, ModeInv, Elements
<1>6. QED BY <1>3, <1>4, <1>5 DEF Inv

\* The next action of set_format() in the mode, up to the division.
Negotiate(e) ==
  \/ V1SetFormat(e) \/ PrepareSkips(e) \/ Prepare(e) \/ Lock(e) \/ Configure(e)
  \/ Enter(e) \/ EnterFails(e) \/ Divide(e) \/ DivideFails(e) \/ Sps(e) \/ Flush(e)

LEMMA HoldersFinite ==
  ASSUME TypeOK
  PROVE  /\ IsFiniteSet(Holders) /\ Cardinality(Holders) \in Nat
         /\ Holders \subseteq Elements
<1>1. Holders \in SUBSET Elements BY DEF Holders
<1>2. QED BY <1>1, DecoderAssumption, FS_Subset, FS_CardinalityType

\* One more holder that is counted.
LEMMA AcquireCounts ==
  ASSUME Inv, NEW e \in Elements, Acquire, holds' = [holds EXCEPT ![e] = TRUE]
  PROVE  Cardinality(Holders') <= usedNum' /\ isSetup'
<1>1. Holders' = Holders \cup {e} BY DEF Inv, TypeOK, Holders
<1>2. /\ Cardinality(Holders \cup {e}) <= Cardinality(Holders) + 1
      /\ Cardinality(Holders) \in Nat /\ Cardinality(Holders \cup {e}) \in Nat
  <2>1. IsFiniteSet(Holders) /\ Cardinality(Holders) \in Nat
    BY HoldersFinite DEF Inv
  <2>2. /\ IsFiniteSet(Holders \cup {e})
        /\ Cardinality(Holders \cup {e}) =
             IF e \in Holders THEN Cardinality(Holders) ELSE Cardinality(Holders) + 1
    BY <2>1, FS_AddElement
  <2>3. QED BY <2>1, <2>2
<1>3. CASE isSetup
  BY <1>1, <1>2, <1>3 DEF Inv, TypeOK, CountInv, Acquire
<1>4. CASE ~isSetup
  <2>1. Holders' = {e} BY <1>1, <1>4 DEF Inv, CountInv
  <2>2. QED BY <2>1, <1>4, FS_Singleton DEF Acquire
<1>5. QED BY <1>3, <1>4

\* One holder less; the context stays up for the rest.
LEMMA ReleaseCounts ==
  ASSUME Inv, NEW e \in Elements, holds[e], Release, holds' = [holds EXCEPT ![e] = FALSE]
  PROVE  Cardinality(Holders') <= usedNum' /\ isSetup'
<1>1. Holders' = Holders \ {e} /\ e \in Holders BY DEF Inv, TypeOK, Holders
<1>2. /\ Cardinality(Holders \ {e}) = Cardinality(Holders) - 1
      /\ Cardinality(Holders) \in Nat /\ Cardinality(Holders \ {e}) \in Nat
  BY <1>1, HoldersFinite, FS_RemoveElement, FS_CardinalityType DEF Inv
<1>3. isSetup /\ usedNum > 0 /\ usedNum \in Nat
  BY <1>1, <1>2 DEF Inv, CountInv, TypeOK
<1>4. QED BY <1>1, <1>2, <1>3 DEF Inv, CountInv, Release

LEMMA CountStep ==
  ASSUME Inv, NEW e \in Elements,
         \/ Create(e) \/ Start(e) \/ StartFails(e) \/ Stop(e) \/ Finalize(e)
         \/ Negotiate(e) \/ UNCHANGED vars
  PROVE  CountInv'
<1>0. /\ holds \in [Elements -> BOOLEAN] /\ V1 \cap V2 = {}
      /\ e \in V1 \/ e \in V2
      /\ life \in [Elements -> {"new", "ready", "running", "gone"}]
      /\ V1 \subseteq Elements
  BY DecoderAssumption DEF Inv, TypeOK, Elements
<1>1. CASE Create(e)
  <2>1. Alive(e)' /\ life[e] = "new" BY <1>0, <1>1 DEF Create, Alive
  <2>2. \A f \in Elements : f # e => life'[f] = life[f] BY <1>0, <1>1 DEF Create
  <2>3. CASE e \in V1
    <3>1. Acquire /\ holds' = [holds EXCEPT ![e] = TRUE]
      BY <1>0, <1>1, <2>3 DEF Create
    <3>2. QED BY <1>0, <2>1, <2>2, <3>1, AcquireCounts DEF Inv, CountInv, Alive
  <2>4. CASE e \in V2
    <3>1. UNCHANGED <<ctxVars, holds>> BY <1>0, <1>1, <2>4 DEF Create
    <3>2. Holders' = Holders BY <3>1 DEF Holders
    <3>3. QED
      BY <1>0, <2>1, <2>2, <2>4, <3>1, <3>2 DEF Inv, CountInv, Alive, ctxVars
  <2>5. QED BY <1>0, <2>3, <2>4
<1>2. CASE Start(e)
  <2>1. /\ Alive(e)' /\ Alive(e)
        /\ \A f \in Elements : f # e => life'[f] = life[f]
    BY <1>0, <1>2 DEF Start, Alive
  <2>2. CASE e \in V2
    <3>1. Acquire /\ holds' = [holds EXCEPT ![e] = TRUE]
      BY <1>0, <1>2, <2>2 DEF Start
    <3>2. QED BY <1>0, <2>1, <3>1, AcquireCounts DEF Inv, CountInv, Alive
  <2>3. CASE e \in V1
    <3>1. UNCHANGED <<ctxVars, holds>> BY <1>0, <1>2, <2>3 DEF Start
    <3>2. Holders' = Holders BY <3>1 DEF Holders
    <3>3. QED BY <1>0, <2>1, <3>1, <3>2 DEF Inv, CountInv, Alive, ctxVars
  <2>4. QED BY <1>0, <2>2, <2>3
<1>3. CASE StartFails(e)
  <2>1. ~isSetup /\ UNCHANGED <<isSetup, usedNum, life>> BY <1>3 DEF StartFails, ctxVars
  <2>2. Holders = {} BY <2>1 DEF Inv, CountInv
  <2>3. \A f \in Elements : ~holds[f] BY <1>0, <2>2 DEF Holders
  <2>4. holds' = holds BY <1>0, <1>3, <2>3 DEF StartFails
  <2>5. Holders' = Holders BY <2>4 DEF Holders
  <2>6. QED BY <2>1, <2>4, <2>5 DEF Inv, CountInv, Alive
<1>4. CASE Stop(e)
  <2>1. UNCHANGED <<isSetup, usedNum, holds>> BY <1>4 DEF Stop, ctxVars
  <2>2. \A f \in Elements : Alive(f)' <=> Alive(f) BY <1>0, <1>4 DEF Stop, Alive
  <2>3. Holders' = Holders BY <2>1 DEF Holders
  <2>4. QED BY <1>0, <2>1, <2>2, <2>3 DEF Inv, CountInv
<1>5. CASE Finalize(e)
  <2>1. /\ holds' = [holds EXCEPT ![e] = FALSE] /\ ~Alive(e)' /\ Alive(e)
        /\ \A f \in Elements : f # e => life'[f] = life[f]
    BY <1>0, <1>5 DEF Finalize, Alive
  <2>2. CASE holds[e]
    <3>1. Release BY <1>0, <1>5, <2>2 DEF Finalize
    <3>2. QED BY <1>0, <2>1, <2>2, <3>1, ReleaseCounts DEF Inv, CountInv, Alive
  <2>3. CASE ~holds[e]
    <3>1. e \notin V1 BY <2>1, <2>3 DEF Inv, CountInv
    <3>2. UNCHANGED ctxVars BY <1>0, <1>5, <2>3, <3>1 DEF Finalize
    <3>3. holds' = holds BY <1>0, <2>1, <2>3
    <3>4. Holders' = Holders BY <3>3 DEF Holders
    <3>5. QED
      BY <1>0, <2>1, <2>3, <3>1, <3>2, <3>3, <3>4 DEF Inv, CountInv, Alive, ctxVars
  <2>4. QED BY <2>2, <2>3
<1>6. CASE Negotiate(e) \/ UNCHANGED vars
  <2>1. UNCHANGED <<isSetup, usedNum, holds, life>>
    BY <1>6 DEF Negotiate, V1SetFormat, PrepareSkips, Prepare, Lock, Configure, Enter,
       EnterFails, Divide, DivideFails, Sps, Flush, vars, ctxVars, elemVars
  <2>2. Holders' = Holders BY <2>1 DEF Holders
  <2>3. QED BY <2>1, <2>2 DEF Inv, CountInv, Alive
<1>7. QED BY <1>1, <1>2, <1>3, <1>4, <1>5, <1>6

\* Life(e): what the application does; it never touches a program counter.
Life(e) == Create(e) \/ Start(e) \/ StartFails(e) \/ Stop(e) \/ Finalize(e)

\* Of the mode, an element's life and frames only ever clear decode_mode_entered.
LEMMA LifeLeavesMode ==
  ASSUME NEW e \in Elements, Life(e) \/ Sps(e) \/ Flush(e) \/ UNCHANGED vars
  PROVE  /\ UNCHANGED <<numDecoder, modeLock, raced, pc, region>>
         /\ entered' = entered \/ entered' = NoOne
<1>1. CASE Finalize(e)
  BY <1>1 DEF Finalize, LeaveDecodeMode, Shutdown
<1>2. CASE ~Finalize(e)
  BY <1>2 DEF Life, Create, Start, StartFails, Stop, Sps, Flush, vars, modeVars, elemVars
<1>3. QED BY <1>1, <1>2

LEMMA MutexStep ==
  ASSUME Inv, NEW e \in Elements, Life(e) \/ Negotiate(e) \/ UNCHANGED vars
  PROVE  MutexInv'
<1>0. /\ pc \in [Elements -> {"idle", "lock", "config", "enter", "divide"}]
      /\ MutexInv /\ V1 \cap V2 = {} /\ V1 \subseteq Elements /\ V2 \subseteq Elements
      /\ NoOne \notin V2 /\ Elements = V1 \cup V2
  BY DecoderAssumption DEF Inv, TypeOK, Elements
<1>1. CASE Life(e) \/ Sps(e) \/ Flush(e) \/ UNCHANGED vars
  BY <1>0, <1>1, LifeLeavesMode DEF MutexInv
<1>2. CASE V1SetFormat(e)
  BY <1>0, <1>2 DEF V1SetFormat, Goto, modeVars, MutexInv
<1>3. CASE PrepareSkips(e)
  BY <1>0, <1>3 DEF PrepareSkips, modeVars, MutexInv
<1>4. CASE Prepare(e)
  BY <1>0, <1>4 DEF Prepare, Goto, modeVars, MutexInv
<1>5. CASE Lock(e)
  BY <1>0, <1>5 DEF Lock, Goto, MutexInv
<1>6. CASE Configure(e)
  BY <1>0, <1>6 DEF Configure, Goto, MutexInv
<1>7. CASE Enter(e)
  BY <1>0, <1>7 DEF Enter, Goto, MutexInv
<1>8. CASE EnterFails(e)
  BY <1>0, <1>8 DEF EnterFails, Unlock, Goto, MutexInv
<1>9. CASE Divide(e) \/ DivideFails(e)
  BY <1>0, <1>9 DEF Divide, DivideFails, Unlock, Goto, MutexInv
<1>10. QED
  BY <1>1, <1>2, <1>3, <1>4, <1>5, <1>6, <1>7, <1>8, <1>9 DEF Negotiate

LEMMA NumberStep ==
  ASSUME Inv, NEW e \in Elements, Life(e) \/ Negotiate(e) \/ UNCHANGED vars
  PROVE  NumberInv'
<1>0. /\ pc \in [Elements -> {"idle", "lock", "config", "enter", "divide"}]
      /\ NumberInv /\ NumDecoders # 0 /\ DriverMax # 0
  BY DecoderAssumption DEF Inv, TypeOK
<1>1. CASE Life(e) \/ Sps(e) \/ Flush(e) \/ UNCHANGED vars
  BY <1>0, <1>1, LifeLeavesMode DEF NumberInv
<1>2. CASE V1SetFormat(e) \/ PrepareSkips(e) \/ Prepare(e)
  BY <1>0, <1>2 DEF V1SetFormat, PrepareSkips, Prepare, Goto, modeVars, NumberInv
<1>3. CASE Lock(e)
  BY <1>0, <1>3 DEF Lock, Goto, NumberInv
<1>4. CASE Configure(e) \/ Enter(e)
  BY <1>0, <1>4 DEF Configure, Enter, Goto, NumberInv
<1>5. CASE EnterFails(e) \/ Divide(e) \/ DivideFails(e)
  BY <1>0, <1>5 DEF EnterFails, Divide, DivideFails, Goto, NumberInv
<1>6. QED BY <1>1, <1>2, <1>3, <1>4, <1>5 DEF Negotiate

LEMMA ModeStep ==
  ASSUME Inv, NEW e \in Elements, Life(e) \/ Negotiate(e) \/ UNCHANGED vars
  PROVE  ModeInv'
<1>0. /\ pc \in [Elements -> {"idle", "lock", "config", "enter", "divide"}]
      /\ region \in [Elements -> (0 .. BsbSize) \X (0 .. BsbSize)]
      /\ entered \in Elements \cup {NoOne} /\ raced \in BOOLEAN
      /\ ModeInv /\ NoOne \notin Elements /\ Elements = V1 \cup V2
      /\ DecId \in [Elements -> Nat] /\ DriverMax \in Nat
  BY DecoderAssumption DEF Inv, TypeOK, Elements
<1>1. CASE Life(e) \/ Sps(e) \/ Flush(e) \/ UNCHANGED vars
  BY <1>0, <1>1, LifeLeavesMode DEF ModeInv, RegionOf
<1>2. CASE V1SetFormat(e) \/ PrepareSkips(e) \/ Prepare(e)
  BY <1>0, <1>2 DEF V1SetFormat, PrepareSkips, Prepare, Goto, modeVars, ModeInv, RegionOf
<1>3. CASE Lock(e)
  BY <1>0, <1>3 DEF Lock, Goto, ModeInv, RegionOf
<1>4. CASE Configure(e)
  <2>1. ASSUME ~raced' PROVE entered = NoOne /\ \A f \in Elements : pc[f] # "divide"
    <3>1. \A f \in Elements : DependsOnMode(f) => e \in V2 /\ f \in V2
      BY <1>0, <1>4, <2>1 DEF Configure, Unserialized
    <3>2. pc[e] = "config" BY <1>4 DEF Configure
    <3>3. ASSUME NEW f \in Elements, DependsOnMode(f) PROVE FALSE
      <4>1. modeLock = e /\ entered \notin V2 BY <3>1, <3>2, <3>3 DEF Inv, MutexInv
      <4>2. f = entered => FALSE BY <3>1, <3>3, <4>1
      <4>3. pc[f] = "divide" => modeLock = f BY <3>1, <3>3 DEF Inv, MutexInv
      <4>4. QED BY <3>2, <3>3, <4>1, <4>2, <4>3 DEF DependsOnMode
    <3>4. QED BY <1>0, <3>3 DEF DependsOnMode
  <2>2. ~raced' => ~raced BY <1>0, <1>4 DEF Configure
  <2>3. UNCHANGED <<entered, region>> /\ pc' = [pc EXCEPT ![e] = "enter"]
    BY <1>4 DEF Configure, Goto
  <2>4. QED BY <1>0, <2>1, <2>2, <2>3 DEF ModeInv, RegionOf
<1>5. CASE Enter(e)
  BY <1>0, <1>5 DEF Enter, Goto, ModeInv, RegionOf
<1>6. CASE Divide(e)
  <2>1. /\ pc[e] = "divide" /\ UNCHANGED <<entered, numDecoder, raced>>
        /\ pc' = [pc EXCEPT ![e] = "idle"]
        /\ e \in V2 => DecId[e] < numDecoder
    BY <1>0, <1>6, DecoderAssumption DEF Divide, Goto
  <2>2. ASSUME ~raced
        PROVE  region'[e] = NoRegion \/ (region'[e] = RegionOf(e) /\ DecId[e] < DriverMax)
    <3>1. numDecoder = DriverMax BY <1>0, <2>1, <2>2 DEF ModeInv
    <3>2. region'[e] = RegionOf(e) BY <1>0, <1>6, <3>1 DEF Divide, RegionOf
    <3>3. e \in V1 /\ ~(DecId[e] < DriverMax) => RegionOf(e) = NoRegion
      BY DEF RegionOf, V1Region
    <3>4. QED BY <1>0, <2>1, <3>1, <3>2, <3>3
  <2>3. \A f \in Elements : f # e => region'[f] = region[f]
    BY <1>0, <1>6 DEF Divide
  <2>4. QED BY <1>0, <2>1, <2>2, <2>3 DEF ModeInv, RegionOf
<1>7. CASE EnterFails(e) \/ DivideFails(e)
  BY <1>0, <1>7 DEF EnterFails, DivideFails, Goto, ModeInv, RegionOf
<1>8. QED BY <1>1, <1>2, <1>3, <1>4, <1>5, <1>6, <1>7 DEF Negotiate

LEMMA TypeStep ==
  ASSUME Inv, NEW e \in Elements, Life(e) \/ Negotiate(e) \/ UNCHANGED vars
  PROVE  TypeOK'
<1>0. /\ TypeOK /\ Elements = V1 \cup V2 /\ NoOne \notin Elements
      /\ MaxStarts \in [Elements -> Nat] /\ 1 \in Nat
  BY DecoderAssumption DEF Inv, Elements
<1>1. CASE Create(e) \/ Start(e) \/ StartFails(e)
  <2>1. isSetup' \in BOOLEAN /\ usedNum' \in Nat
    <3>1. Acquire \/ UNCHANGED ctxVars BY <1>0, <1>1 DEF Create, Start, StartFails
    <3>2. CASE Acquire BY <1>0, <3>2 DEF TypeOK, Acquire
    <3>3. CASE UNCHANGED ctxVars BY <1>0, <3>3 DEF TypeOK, ctxVars
    <3>4. QED BY <3>1, <3>2, <3>3
  <2>2. /\ life' \in [Elements -> {"new", "ready", "running", "gone"}]
        /\ holds' \in [Elements -> BOOLEAN]
    <3>1. \/ holds' = holds \/ holds' = [holds EXCEPT ![e] = TRUE]
          \/ holds' = [holds EXCEPT ![e] = FALSE]
      BY <1>0, <1>1 DEF Create, Start, StartFails
    <3>2. \/ life' = life \/ life' = [life EXCEPT ![e] = "ready"]
          \/ life' = [life EXCEPT ![e] = "running"]
      BY <1>0, <1>1 DEF Create, Start, StartFails
    <3>3. QED BY <1>0, <3>1, <3>2 DEF TypeOK
  <2>3. starts' \in [Elements -> Nat] /\ \A f \in Elements : starts'[f] <= MaxStarts[f]
    <3>1. CASE Create(e) BY <1>0, <3>1 DEF TypeOK, Create
    <3>2. CASE Start(e) \/ StartFails(e)
      <4>1. starts[e] \in Nat /\ MaxStarts[e] \in Nat /\ starts[e] < MaxStarts[e]
        BY <1>0, <3>2 DEF TypeOK, Start, StartFails
      <4>2. starts' = [starts EXCEPT ![e] = @ + 1]
        BY <3>2 DEF Start, StartFails
      <4>3. \A f \in Elements : starts'[f] = starts[f] \/ (f = e /\ starts'[f] = starts[e] + 1)
        BY <1>0, <4>2 DEF TypeOK
      <4>4. \A f \in Elements : starts'[f] \in Nat /\ starts'[f] <= MaxStarts[f]
        BY <1>0, <4>1, <4>3 DEF TypeOK
      <4>5. starts' \in [Elements -> Nat] BY <1>0, <4>1, <4>2 DEF TypeOK
      <4>6. QED BY <4>4, <4>5
    <3>3. QED BY <1>1, <3>1, <3>2
  <2>4. UNCHANGED <<modeVars, pc, region, ready, created, drvDec>>
    BY <1>1 DEF Create, Start, StartFails
  <2>5. QED BY <1>0, <2>1, <2>2, <2>3, <2>4 DEF TypeOK, modeVars
<1>2. CASE Stop(e)
  BY <1>0, <1>2 DEF TypeOK, Stop, Shutdown, ctxVars, modeVars
<1>3. CASE Finalize(e)
  <2>1. isSetup' \in BOOLEAN /\ usedNum' \in Nat
    <3>1. Release \/ UNCHANGED ctxVars BY <1>0, <1>3 DEF Finalize
    <3>2. CASE Release
      <4>1. isSetup' = isSetup \/ isSetup' = FALSE BY <3>2 DEF Release
      <4>2. \/ usedNum > 0 /\ usedNum' = usedNum - 1
            \/ usedNum' = usedNum
        BY <3>2 DEF Release
      <4>3. usedNum \in Nat /\ isSetup \in BOOLEAN BY <1>0 DEF TypeOK
      <4>4. usedNum' \in Nat BY <4>2, <4>3
      <4>5. QED BY <4>1, <4>3, <4>4
    <3>3. CASE UNCHANGED ctxVars BY <1>0, <3>3 DEF TypeOK, ctxVars
    <3>4. QED BY <3>1, <3>2, <3>3
  <2>2. /\ entered' \in Elements \cup {NoOne} /\ exitBit' \in {0, 1}
        /\ drvMode' \in BOOLEAN
        /\ drvDec' \in [Elements -> {"none", "running", "stopped"}]
        /\ created' \in [Elements -> BOOLEAN]
    <3>1. \/ LeaveDecodeMode(e)
          \/ Shutdown(e) /\ UNCHANGED <<entered, exitBit, drvMode>>
          \/ UNCHANGED <<entered, exitBit, drvMode, drvDec, created>>
      BY <1>0, <1>3 DEF Finalize
    <3>2. Shutdown(e) => /\ drvDec' \in [Elements -> {"none", "running", "stopped"}]
                         /\ created' \in [Elements -> BOOLEAN]
      BY <1>0 DEF TypeOK, Shutdown
    <3>3. CASE LeaveDecodeMode(e)
      <4>1. exitBit' \in {0, 1}
        <5>1. exitBit' \in {0, exitBit, 1 - exitBit} BY <3>3 DEF LeaveDecodeMode
        <5>2. QED BY <1>0, <5>1 DEF TypeOK
      <4>2. \/ Shutdown(e) /\ UNCHANGED <<entered, drvMode>>
            \/ /\ entered' = NoOne /\ drvMode' = FALSE
               /\ drvDec' = [f \in Elements |-> "none"]
               /\ created' = [created EXCEPT ![e] = FALSE]
        BY <3>3 DEF LeaveDecodeMode
      <4>3. QED BY <1>0, <3>2, <4>1, <4>2 DEF TypeOK
    <3>4. CASE ~LeaveDecodeMode(e) BY <1>0, <3>1, <3>2, <3>4 DEF TypeOK
    <3>5. QED BY <3>3, <3>4
  <2>3. /\ life' \in [Elements -> {"new", "ready", "running", "gone"}]
        /\ holds' \in [Elements -> BOOLEAN]
        /\ UNCHANGED <<numDecoder, modeLock, raced, starts, pc, region, ready>>
    BY <1>0, <1>3 DEF TypeOK, Finalize
  <2>4. QED BY <1>0, <2>1, <2>2, <2>3 DEF TypeOK
<1>4. CASE V1SetFormat(e)
  BY <1>0, <1>4 DEF TypeOK, V1SetFormat, Goto, ctxVars, modeVars
<1>5. CASE PrepareSkips(e)
  BY <1>0, <1>5 DEF TypeOK, PrepareSkips, ctxVars, modeVars
<1>6. CASE Prepare(e)
  BY <1>0, <1>6 DEF TypeOK, Prepare, Shutdown, Goto, ctxVars, modeVars
<1>7. CASE Lock(e)
  <2>1. e \in V2 BY <1>7 DEF Inv, MutexInv, Lock
  <2>2. QED BY <1>0, <1>7, <2>1 DEF TypeOK, Lock, Goto, ctxVars
<1>8. CASE Configure(e)
  BY <1>0, <1>8 DEF TypeOK, Configure, Goto, ctxVars
<1>9. CASE Enter(e)
  BY <1>0, <1>9 DEF TypeOK, Enter, Goto, ctxVars
<1>10. CASE EnterFails(e) \/ DivideFails(e)
  BY <1>0, <1>10 DEF TypeOK, EnterFails, DivideFails, Unlock, Goto, ctxVars
<1>11. CASE Divide(e)
  <2>1. numDecoder \in {NumDecoders, DriverMax} /\ (e \in V1 \/ DecId[e] < numDecoder)
    BY <1>0, <1>11 DEF Inv, TypeOK, NumberInv, Divide
  <2>2. region' \in [Elements -> (0 .. BsbSize) \X (0 .. BsbSize)]
    <3>1. (IF e \in V1 THEN V1Region(DecId[e], numDecoder) ELSE V2Region(DecId[e], numDecoder))
            \in (0 .. BsbSize) \X (0 .. BsbSize)
      BY <2>1, RegionInBuffer
    <3>2. QED BY <1>0, <1>11, <3>1 DEF TypeOK, Divide
  <2>3. QED BY <1>0, <1>11, <2>2 DEF TypeOK, Divide, Unlock, Goto, ctxVars
<1>12. CASE Sps(e) \/ Flush(e)
  <2>1. /\ drvDec' = [drvDec EXCEPT ![e] = "running"]
        /\ created' = created \/ created' = [created EXCEPT ![e] = TRUE]
        /\ UNCHANGED <<ctxVars, modeVars, life, starts, holds, pc, region, ready>>
    BY <1>12 DEF Sps, Flush
  <2>2. QED BY <1>0, <2>1 DEF TypeOK, ctxVars, modeVars
<1>13. CASE UNCHANGED vars
  BY <1>0, <1>13 DEF TypeOK, vars, ctxVars, modeVars, elemVars
<1>14. QED
  BY <1>1, <1>2, <1>3, <1>4, <1>5, <1>6, <1>7, <1>8, <1>9, <1>10, <1>11, <1>12, <1>13
  DEF Life, Negotiate

\* Every step of an element of either version, and of the driver, keeps the invariant.
THEOREM InvStep == Inv /\ [Next]_vars => Inv'
<1> SUFFICES ASSUME Inv, [Next]_vars PROVE Inv' OBVIOUS
<1>1. ASSUME NEW e \in Elements, Life(e) \/ Negotiate(e) \/ UNCHANGED vars PROVE Inv'
  <2>1. CountInv' BY <1>1, CountStep DEF Life
  <2>2. QED BY <1>1, <2>1, TypeStep, MutexStep, NumberStep, ModeStep DEF Inv
<1>2. CASE \E e \in Elements : Life(e) \/ Negotiate(e) BY <1>1, <1>2
<1>3. CASE UNCHANGED vars
  <2>1. UNCHANGED <<isSetup, usedNum, holds, life, pc, modeLock, entered, numDecoder, raced, region>>
    BY <1>3 DEF vars, ctxVars, modeVars, elemVars
  <2>2. TypeOK' BY <1>3 DEF Inv, TypeOK, vars, ctxVars, modeVars, elemVars
  <2>3. Holders' = Holders BY <2>1 DEF Holders
  <2>4. CountInv' BY <2>1, <2>3 DEF Inv, CountInv, Alive
  <2>5. MutexInv' /\ NumberInv' BY <2>1 DEF Inv, MutexInv, NumberInv
  <2>6. ModeInv' BY <2>1 DEF Inv, ModeInv, RegionOf
  <2>7. QED BY <2>2, <2>4, <2>5, <2>6 DEF Inv
<1>4. QED BY <1>2, <1>3 DEF Next, Life, Negotiate

-----------------------------------------------------------------------------
(* The theorems. *)

\* The inductive invariant: types, the count of holders, who holds the mutex of
\* V2, and the number everybody divides the bit-stream buffer by.
THEOREM DecoderInvariance == Spec => []Inv
<1>1. QED BY InvInit, InvStep, PTL DEF Spec

\* The shared context is never cleaned up under an element that keeps it: every
\* holder is counted, for any number of elements and restarts (iav_ctx.c).
THEOREM ContextOutlivesHolders == Spec => []HeldContextIsUp
<1>1. Inv => HeldContextIsUp BY DEF Inv, CountInv, HeldContextIsUp
<1>2. QED BY <1>1, DecoderInvariance, PTL

\* Two decoders that run have disjoint parts of the bit-stream buffer, for any
\* number of decoders of both versions and any size of the buffer.
THEOREM BufferDivided == Spec => []RegionsDisjoint
<1>1. ASSUME Inv PROVE RegionsDisjoint
  <2>1. SUFFICES ASSUME ~raced, NEW e \in Elements, NEW f \in Elements, e # f
                 PROVE  Disjoint(region[e], region[f])
    BY DEF RegionsDisjoint
  <2>2. /\ region[e] \in (0 .. BsbSize) \X (0 .. BsbSize)
        /\ region[f] \in (0 .. BsbSize) \X (0 .. BsbSize)
        /\ BsbSize \in Nat
    BY <1>1, DecoderAssumption DEF Inv, TypeOK
  <2>3. CASE region[e] = NoRegion \/ region[f] = NoRegion
    BY <2>2, <2>3 DEF Disjoint, NoRegion
  <2>4. CASE region[e] # NoRegion /\ region[f] # NoRegion
    <3>1. /\ region[e] = RegionOf(e) /\ DecId[e] < DriverMax
          /\ region[f] = RegionOf(f) /\ DecId[f] < DriverMax
      BY <1>1, <2>1, <2>4 DEF Inv, ModeInv
    <3>2. DecId[e] < DecId[f] \/ DecId[f] < DecId[e]
      <4>1. DecId[e] \in Nat /\ DecId[f] \in Nat /\ DecId[e] # DecId[f]
        BY <2>1, DecoderAssumption
      <4>2. QED BY <4>1
    <3>3. QED BY <3>1, <3>2, RegionsInOrder DEF Disjoint
  <2>5. QED BY <2>3, <2>4
<1>2. QED BY <1>1, DecoderInvariance, PTL
=============================================================================
