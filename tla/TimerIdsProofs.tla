---------------------------- MODULE TimerIdsProofs ----------------------------
(* Theorems about TimerIds, for any jobs and any bound of the counter.     *)
EXTENDS TimerIds, TLAPS

(* Unless threads have raced, one at most is between its two uses of the   *)
(* counter, and what it has read is still what the counter holds.          *)
OneDraws ==
  ~raced => \A j \in Jobs : Drawn(j) =>
    /\ id[j] = nextId
    /\ \A k \in Jobs : Drawn(k) => k = j

Inv == TypeOK /\ IdsUnique /\ OneDraws

LEMMA InvInit == Init => Inv
<1> SUFFICES ASSUME Init PROVE Inv
  OBVIOUS
<1>1. TypeOK
  BY DEF Init, TypeOK, Places
<1>2. \A j \in Jobs : job[j] = "new"
  BY DEF Init
<1>3. IdsUnique /\ OneDraws
  BY <1>2 DEF IdsUnique, OneDraws, Drawn
<1>4. QED
  BY <1>1, <1>3 DEF Inv

LEMMA TypeStep == TypeOK /\ [Next]_vars => TypeOK'
<1> SUFFICES ASSUME TypeOK, [Next]_vars PROVE TypeOK'
  OBVIOUS
<1> USE DEF TypeOK, Places
<1>1. ASSUME NEW j \in Jobs, Draw(j) PROVE TypeOK'
  BY <1>1 DEF Draw
<1>2. ASSUME NEW j \in Jobs, Insert(j) PROVE TypeOK'
  BY <1>2 DEF Insert
<1>3. ASSUME NEW j \in Jobs, Fire(j) PROVE TypeOK'
  BY <1>3 DEF Fire
<1>4. ASSUME NEW o \in Onces, CancelOnce(o) PROVE TypeOK'
  BY <1>4 DEF CancelOnce
<1>5. CASE UNCHANGED vars
  BY <1>5 DEF vars
<1>6. QED
  BY <1>1, <1>2, <1>3, <1>4, <1>5 DEF Next

LEMMA NextPreserves == Inv /\ [Next]_vars => Inv'
<1> SUFFICES ASSUME Inv, [Next]_vars PROVE Inv'
  OBVIOUS
<1>0. TypeOK /\ TypeOK'
  BY TypeStep DEF Inv
<1> SUFFICES ASSUME ~raced' PROVE IdsUnique' /\ OneDraws'
  BY <1>0 DEF Inv, IdsUnique, OneDraws
<1>1. ASSUME NEW j \in Jobs, Draw(j) PROVE IdsUnique' /\ OneDraws'
  <2>1. ~raced /\ \A k \in Jobs : ~Drawn(k)
    BY <1>1 DEF Draw
  <2>2. \A k \in Jobs : Drawn(k)' <=> k = j
    BY <1>0, <1>1, <2>1 DEF Draw, Drawn, TypeOK
  <2>3. OneDraws'
    BY <1>0, <1>1, <2>2 DEF Draw, OneDraws, TypeOK
  <2>4. IdsUnique'
    BY <1>0, <1>1, <2>1, <2>2 DEF Draw, Inv, IdsUnique, TypeOK
  <2>5. QED
    BY <2>3, <2>4
<1>2. ASSUME NEW j \in Jobs, Insert(j) PROVE IdsUnique' /\ OneDraws'
  <2>1. ~raced /\ id[j] = nextId /\ nextId' = nextId + 1 /\ id' = id
    BY <1>2 DEF Insert, Inv, OneDraws
  <2>2. \A k \in Jobs : ~Drawn(k)' /\ (Drawn(k) => k = j)
    BY <1>0, <1>2, <2>1 DEF Insert, Inv, OneDraws, Drawn, TypeOK
  <2>3. \A k \in Jobs : job'[k] # "new" => k = j \/ (job[k] # "new" /\ ~Drawn(k))
    BY <1>0, <1>2, <2>2 DEF Insert, TypeOK
  <2>4. \A k \in Jobs : job'[k] # "new" => id[k] < nextId'
    BY <1>0, <2>1, <2>3 DEF Inv, IdsUnique, TypeOK
  <2>5. \A k, l \in Jobs : job'[k] # "new" /\ job'[l] # "new" /\ k # l => id[k] # id[l]
    BY <1>0, <2>1, <2>3 DEF Inv, IdsUnique, TypeOK
  <2>6. QED
    BY <2>1, <2>2, <2>4, <2>5 DEF IdsUnique, OneDraws
<1>3. ASSUME UNCHANGED <<nextId, id, raced>>, NEW j \in Jobs, NEW to \in {"held", "over"},
             job[j] = "queued", job' = [job EXCEPT ![j] = to]
      PROVE  IdsUnique' /\ OneDraws'
  <2>1. \A k \in Jobs : Drawn(k)' <=> Drawn(k)
    BY <1>0, <1>3 DEF Drawn, TypeOK
  <2>2. \A k \in Jobs : job'[k] # "new" <=> job[k] # "new"
    BY <1>0, <1>3 DEF TypeOK
  <2>3. QED
    BY <1>3, <2>1, <2>2 DEF Inv, IdsUnique, OneDraws
<1>4. ASSUME NEW j \in Jobs, Fire(j) PROVE IdsUnique' /\ OneDraws'
  BY <1>3, <1>4 DEF Fire
<1>5. ASSUME NEW o \in Onces, CancelOnce(o) PROVE IdsUnique' /\ OneDraws'
  BY <1>3, <1>5 DEF CancelOnce
<1>6. CASE UNCHANGED vars
  BY <1>6 DEF vars, Inv, IdsUnique, OneDraws, Drawn
<1>7. QED
  BY <1>1, <1>2, <1>4, <1>5, <1>6 DEF Next

THEOREM Invariance == Spec => []Inv
BY InvInit, NextPreserves, PTL DEF Spec

(* The state is well typed.                                                *)
THEOREM TypeCorrect == Spec => []TypeOK
<1>1. Inv => TypeOK
  BY DEF Inv
<1>2. QED
  BY <1>1, Invariance, PTL

(* Jobs have ids of their own, as long as no two threads have drawn at the *)
(* same time.                                                              *)
THEOREM UniqueCorrect == Spec => []IdsUnique
<1>1. Inv => IdsUnique
  BY DEF Inv
<1>2. QED
  BY <1>1, Invariance, PTL

(* Hence cancel_once removes its own job or nothing.                       *)
THEOREM CancelCorrect == Spec => CancelHitsOwn
<1>1. ASSUME Inv, NEW o \in Onces, CancelOnce(o), ~raced
      PROVE  job[o] = "queued" /\ job'[o] = "over"
  <2>1. PICK j \in Jobs : /\ job[j] = "queued" /\ id[j] = id[o]
                          /\ job' = [job EXCEPT ![j] = "over"]
    BY <1>1 DEF CancelOnce, Matches
  <2>2. o \in Jobs /\ job[o] \in {"queued", "over"}
    BY <1>1 DEF Jobs, CancelOnce
  <2>3. j = o
    BY <1>1, <2>1, <2>2 DEF Inv, IdsUnique, Drawn
  <2>4. QED
    BY <1>1, <2>1, <2>3 DEF Inv, TypeOK
<1>2. Inv => [\A o \in Onces :
                CancelOnce(o) => raced \/ (job[o] = "queued" /\ job'[o] = "over")]_vars
  BY <1>1
<1>3. QED
  BY <1>2, Invariance, PTL DEF CancelHitsOwn

===============================================================================
