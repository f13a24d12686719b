-------------------------- MODULE SyscallHookProof --------------------------
(***************************************************************************)
(* StoresAllowed of SyscallHook for any number of loads, unloads and calls *)
(* and any processes that call.                                            *)
(***************************************************************************)
EXTENDS SyscallHook, TLAPS

(* What may be left of an init or exit function, while the table is        *)
(* protected and while it is not                                           *)
Before == {<<"rw", "save", "store", "ro">>, <<"save", "rw", "store", "ro">>,
           <<"rw", "store", "ro">>, <<"rw", "restore", "ro">>}
Within == {<<"save", "store", "ro">>, <<"store", "ro">>, <<"restore", "ro">>, <<"ro">>}
Todos == {<<>>} \cup Before \cup Within

Record == [st : {"out", "in", "fault"}, todo : Todos, leaving : BOOLEAN,
           saved : Functions \cup {"none"}]

(* The inductive invariant: one after the other means that at most one     *)
(* module is in its init or exit function, and the table is writable just  *)
(* between make_rw and make_ro of it.                                      *)
HookInv ==
    /\ table \in [Slots -> Functions \cup {"none"}]
    /\ mod \in [Modules -> Record]
    /\ writable \in BOOLEAN
    /\ \A m \in Modules : mod[m].st # "in" => mod[m].todo = <<>>
    /\ "overlap" \notin deviations =>
          /\ \A m \in Modules :
               mod[m].st = "fault" => m = "file_varea" /\ "nosymbol" \in deviations
          /\ \A m, n \in Modules : Busy(m) /\ Busy(n) => m = n
          /\ writable = IF \E m \in Modules : mod[m].todo \in Within THEN TRUE ELSE FALSE

(* What Tail makes of the statements that are left *)
LEMMA Tails ==
    /\ Tail(<<"rw", "save", "store", "ro">>) = <<"save", "store", "ro">>
    /\ Tail(<<"save", "rw", "store", "ro">>) = <<"rw", "store", "ro">>
    /\ Tail(<<"rw", "store", "ro">>) = <<"store", "ro">>
    /\ Tail(<<"rw", "restore", "ro">>) = <<"restore", "ro">>
    /\ Tail(<<"save", "store", "ro">>) = <<"store", "ro">>
    /\ Tail(<<"store", "ro">>) = <<"ro">>
    /\ Tail(<<"restore", "ro">>) = <<"ro">>
    /\ Tail(<<"ro">>) = <<>>
OBVIOUS

LEMMA Distinct == <<>> \notin Before /\ <<>> \notin Within /\ Before \cap Within = {}
BY DEF Before, Within

(* A statement and what is left after it *)
LEMMA AfterHead ==
    ASSUME NEW t \in Todos, t # <<>>
    PROVE  /\ Tail(t) \in Todos
           /\ Head(t) = "rw" => t \in Before /\ Tail(t) \in Within
           /\ Head(t) = "ro" => t \in Within /\ Tail(t) = <<>>
           /\ Head(t) \in {"store", "restore"} => t \in Within /\ Tail(t) \in Within
           /\ Head(t) = "save" => (t \in Within <=> Tail(t) \in Within) /\ Tail(t) # <<>>
<1>1. CASE t = <<"rw", "save", "store", "ro">>
  <2>1. Head(t) = "rw"
    BY <1>1
  <2> QED
    BY <1>1, <2>1, Tails DEF Todos, Before, Within
<1>2. CASE t = <<"save", "rw", "store", "ro">>
  <2>1. Head(t) = "save"
    BY <1>2
  <2> QED
    BY <1>2, <2>1, Tails DEF Todos, Before, Within
<1>3. CASE t = <<"rw", "store", "ro">>
  <2>1. Head(t) = "rw"
    BY <1>3
  <2> QED
    BY <1>3, <2>1, Tails DEF Todos, Before, Within
<1>4. CASE t = <<"rw", "restore", "ro">>
  <2>1. Head(t) = "rw"
    BY <1>4
  <2> QED
    BY <1>4, <2>1, Tails DEF Todos, Before, Within
<1>5. CASE t = <<"save", "store", "ro">>
  <2>1. Head(t) = "save"
    BY <1>5
  <2> QED
    BY <1>5, <2>1, Tails DEF Todos, Before, Within
<1>6. CASE t = <<"store", "ro">>
  <2>1. Head(t) = "store"
    BY <1>6
  <2> QED
    BY <1>6, <2>1, Tails DEF Todos, Before, Within
<1>7. CASE t = <<"restore", "ro">>
  <2>1. Head(t) = "restore"
    BY <1>7
  <2> QED
    BY <1>7, <2>1, Tails DEF Todos, Before, Within
<1>8. CASE t = <<"ro">>
  <2>1. Head(t) = "ro"
    BY <1>8
  <2> QED
    BY <1>8, <2>1, Tails DEF Todos, Before, Within
<1> QED
  BY <1>1, <1>2, <1>3, <1>4, <1>5, <1>6, <1>7, <1>8 DEF Todos, Before, Within

(* A step of one module, while no other one is busy unless that is on      *)
(* record *)
LEMMA ModFrame ==
    ASSUME HookInv, NEW m \in Modules, NEW r \in Record, mod' = [mod EXCEPT ![m] = r],
           table' \in [Slots -> Functions \cup {"none"}], writable' \in BOOLEAN,
           r.st # "in" => r.todo = <<>>,
           deviations \subseteq deviations',
           "overlap" \notin deviations' =>
              /\ r.st = "fault" => m = "file_varea" /\ "nosymbol" \in deviations'
              /\ \A x \in Modules \ {m} : ~ Busy(x)
              /\ writable' = IF r.todo \in Within THEN TRUE ELSE FALSE
    PROVE  HookInv'
<1>1. mod' \in [Modules -> Record] /\ mod'[m] = r
  BY DEF HookInv
<1>2. \A x \in Modules \ {m} : mod'[x] = mod[x]
  BY DEF HookInv
<1>3. \A x \in Modules : mod'[x].st # "in" => mod'[x].todo = <<>>
  BY <1>1, <1>2 DEF HookInv
<1>4. ASSUME "overlap" \notin deviations'
      PROVE  /\ \A x \in Modules :
                  mod'[x].st = "fault" => x = "file_varea" /\ "nosymbol" \in deviations'
             /\ \A x, n \in Modules : Busy(x)' /\ Busy(n)' => x = n
             /\ writable' = IF \E x \in Modules : mod'[x].todo \in Within THEN TRUE ELSE FALSE
  <2>1. \A x \in Modules \ {m} : mod'[x].todo = <<>>
    BY <1>2, <1>4 DEF Busy
  <2>2. \A x \in Modules :
           mod'[x].st = "fault" => x = "file_varea" /\ "nosymbol" \in deviations'
    BY <1>1, <1>2, <1>4 DEF HookInv
  <2>3. \A x, n \in Modules : Busy(x)' /\ Busy(n)' => x = n
    BY <2>1 DEF Busy
  <2>4. writable' = IF \E x \in Modules : mod'[x].todo \in Within THEN TRUE ELSE FALSE
    BY <1>1, <1>4, <2>1, Distinct
  <2> QED
    BY <2>2, <2>3, <2>4
<1> QED
  BY <1>1, <1>3, <1>4 DEF HookInv

(* While one module is busy no other one is, unless that is on record; the *)
(* table is writable if and only if the busy one has made it so.           *)
LEMMA OnlyOne ==
    ASSUME HookInv, NEW m \in Modules, Busy(m), "overlap" \notin deviations
    PROVE  /\ \A x \in Modules \ {m} : ~ Busy(x)
           /\ writable = IF mod[m].todo \in Within THEN TRUE ELSE FALSE
<1>1. \A x \in Modules \ {m} : ~ Busy(x)
  BY DEF HookInv
<1>2. \A x \in Modules \ {m} : mod[x].todo \notin Within
  BY <1>1, Distinct DEF Busy
<1> QED
  BY <1>1, <1>2 DEF HookInv

LEMMA AdvanceRecord ==
    ASSUME HookInv, NEW m \in Modules, Busy(m)
    PROVE  \E r \in Record : /\ Advance(m) = [mod EXCEPT ![m] = r]
                             /\ r.todo = Tail(mod[m].todo)
                             /\ r.st # "fault"
                             /\ r.st # "in" => r.todo = <<>>
<1>1. mod[m] \in Record /\ mod[m].todo \in Todos /\ mod[m].todo # <<>> /\ mod[m].st = "in"
  BY DEF HookInv, Busy, Record
<1>2. Tail(mod[m].todo) \in Todos
  BY <1>1, AfterHead
<1>3. CASE mod[m].leaving /\ Tail(mod[m].todo) = <<>>
  <2> DEFINE r == [st |-> "out", todo |-> <<>>, leaving |-> FALSE, saved |-> "none"]
  <2>1. r \in Record
    BY <1>2, <1>3 DEF Record
  <2>2. Advance(m) = [mod EXCEPT ![m] = r]
    BY <1>3 DEF Advance
  <2> QED
    BY <1>3, <2>1, <2>2
<1>4. CASE ~ (mod[m].leaving /\ Tail(mod[m].todo) = <<>>)
  <2> DEFINE r == [mod[m] EXCEPT !.todo = Tail(mod[m].todo)]
  <2>1. r \in Record /\ r.st = "in" /\ r.todo = Tail(mod[m].todo)
    BY <1>1, <1>2 DEF Record
  <2>2. Advance(m) = [mod EXCEPT ![m] = r]
    BY <1>4 DEF Advance
  <2> QED
    BY <2>1, <2>2
<1> QED
  BY <1>3, <1>4

LEMMA InitHookInv == Init => HookInv
<1> SUFFICES ASSUME Init PROVE HookInv
  OBVIOUS
<1>1. mod \in [Modules -> Record] /\ \A m \in Modules : mod[m].st = "out" /\ mod[m].todo = <<>>
  BY DEF Init, Record, Todos
<1>2. table \in [Slots -> Functions \cup {"none"}]
  BY DEF Init, Functions
<1> QED
  BY <1>1, <1>2, Distinct DEF Init, HookInv, Busy

(* A call changes neither the table nor a module. *)
LEMMA CallFrame ==
    ASSUME HookInv, UNCHANGED <<table, writable, mod, deviations>>
    PROVE  HookInv'
BY DEF HookInv, Busy

(* insmod and rmmod begin a function that protects nothing yet. *)
LEMMA BeginStep ==
    ASSUME HookInv, NEW m \in Modules, ~ Busy(m), NEW r \in Record,
           mod' = [mod EXCEPT ![m] = r], r.st = "in", r.todo \in Before,
           UNCHANGED <<table, writable>>, NEW D, OverlapNow(m) \subseteq D, Deviate(D)
    PROVE  HookInv'
<1>1. ASSUME "overlap" \notin deviations'
      PROVE  /\ \A x \in Modules \ {m} : ~ Busy(x)
             /\ writable' = IF r.todo \in Within THEN TRUE ELSE FALSE
  <2>1. "overlap" \notin deviations /\ \A x \in Modules \ {m} : ~ Busy(x)
    BY <1>1 DEF Deviate, OverlapNow
  <2>2. \A x \in Modules : mod[x].todo \notin Within
    BY <2>1, Distinct DEF Busy
  <2>3. writable = FALSE
    BY <2>1, <2>2 DEF HookInv
  <2>4. writable' = FALSE /\ r.todo \notin Within
    BY <2>3, Distinct
  <2> QED
    BY <2>1, <2>4
<1>2. /\ table' \in [Slots -> Functions \cup {"none"}] /\ writable' \in BOOLEAN
      /\ deviations \subseteq deviations'
  BY DEF HookInv, Deviate
<1> QED
  BY <1>1, <1>2, ModFrame

(* A module that faults at once begins nothing. *)
LEMMA IdleFrame ==
    ASSUME HookInv, NEW m \in Modules, ~ Busy(m), NEW r \in Record,
           mod' = [mod EXCEPT ![m] = r], r.st = "fault", r.todo = <<>>,
           m = "file_varea", "nosymbol" \in deviations,
           UNCHANGED <<table, writable>>, Deviate(OverlapNow(m))
    PROVE  HookInv'
<1>1. ASSUME "overlap" \notin deviations'
      PROVE  /\ \A x \in Modules \ {m} : ~ Busy(x)
             /\ writable' = IF r.todo \in Within THEN TRUE ELSE FALSE
  <2>1. "overlap" \notin deviations /\ \A x \in Modules \ {m} : ~ Busy(x)
    BY <1>1 DEF Deviate, OverlapNow
  <2>2. \A x \in Modules : mod[x].todo \notin Within
    BY <2>1, Distinct DEF Busy
  <2>3. writable = FALSE /\ r.todo \notin Within
    BY <2>1, <2>2, Distinct DEF HookInv
  <2> QED
    BY <2>1, <2>3
<1>2. /\ table' \in [Slots -> Functions \cup {"none"}] /\ writable' \in BOOLEAN
      /\ deviations \subseteq deviations'
  BY DEF HookInv, Deviate
<1> QED
  BY <1>1, <1>2, ModFrame

LEMMA NextHookInv == HookInv /\ [Next]_vars => HookInv'
<1> SUFFICES ASSUME HookInv, [Next]_vars PROVE HookInv'
  OBVIOUS
<1>0. /\ mod \in [Modules -> Record] /\ writable \in BOOLEAN
      /\ table \in [Slots -> Functions \cup {"none"}]
  BY DEF HookInv
<1>1. ASSUME NEW m \in Modules, insmod(m) PROVE HookInv'
  <2> DEFINE r == [st |-> "in", todo |-> InitSteps(m), leaving |-> FALSE, saved |-> "none"]
             q == [mod[m] EXCEPT !.st = "fault"]
  <2>1. ~ Busy(m) /\ Deviate(OverlapNow(m)) /\ UNCHANGED <<table, writable>>
    BY <1>1 DEF insmod, HookInv, Busy
  <2>2. CASE "nosymbol" \notin deviations
    <3>1. InitSteps(m) \in Before
      BY DEF InitSteps, Before
    <3>2. r \in Record /\ r.st = "in" /\ r.todo \in Before
      BY <3>1 DEF Record, Todos
    <3>3. mod' = [mod EXCEPT ![m] = r]
      BY <1>1, <2>2 DEF insmod
    <3> HIDE DEF r
    <3> QED
      BY <2>1, <3>2, <3>3, BeginStep
  <2>3. CASE "nosymbol" \in deviations /\ m = "file_varea"
    <3>1. q \in Record /\ q.st = "fault" /\ q.todo = <<>>
      BY <1>0, <2>1 DEF Record, Busy
    <3>2. mod' = [mod EXCEPT ![m] = q]
      BY <1>0, <1>1, <2>3 DEF insmod
    <3>3. deviations \subseteq deviations'
      BY <2>1 DEF Deviate
    <3> HIDE DEF q
    <3> QED
      BY <1>0, <2>1, <2>3, <3>1, <3>2, <3>3, IdleFrame
  <2>4. CASE "nosymbol" \in deviations /\ m # "file_varea"
    <3>1. mod' = mod
      BY <1>1, <2>4 DEF insmod
    <3> QED
      BY <2>1, <3>1 DEF HookInv, Busy, Deviate
  <2> QED
    BY <2>2, <2>3, <2>4
<1>2. ASSUME NEW m \in Modules, rmmod(m) PROVE HookInv'
  <2> DEFINE r == [mod[m] EXCEPT !.leaving = TRUE, !.todo = ExitSteps(m)]
             D == OverlapNow(m) \cup (IF Last(OfSlot(Slot(m))) = m THEN {} ELSE {"order"})
  <2>1. ExitSteps(m) \in Before
    BY DEF ExitSteps, Before
  <2>2. r \in Record /\ r.st = "in" /\ r.todo \in Before
    BY <1>0, <1>2, <2>1 DEF Record, Todos, rmmod
  <2>3. ~ Busy(m) /\ mod' = [mod EXCEPT ![m] = r] /\ UNCHANGED <<table, writable>>
    BY <1>0, <1>2 DEF rmmod
  <2>4. Deviate(D) /\ OverlapNow(m) \subseteq D
    BY <1>2 DEF rmmod
  <2> HIDE DEF r, D
  <2> QED
    BY <2>2, <2>3, <2>4, BeginStep
<1>3. ASSUME NEW m \in Modules, ModuleStep(m) PROVE HookInv'
  <2> DEFINE t == mod[m].todo
  <2>1. Busy(m) /\ t \in Todos /\ t # <<>>
    BY <1>0, <1>3 DEF ModuleStep, make_rw, make_ro, Save, Install, Restore, Store, Due, Busy, Record
  <2>2. PICK r \in Record : /\ Advance(m) = [mod EXCEPT ![m] = r]
                            /\ r.todo = Tail(t)
                            /\ r.st # "fault"
                            /\ r.st # "in" => r.todo = <<>>
    BY <2>1, AdvanceRecord
  <2>3. "overlap" \notin deviations => /\ \A x \in Modules \ {m} : ~ Busy(x)
                                      /\ writable = IF t \in Within THEN TRUE ELSE FALSE
    BY <2>1, OnlyOne
  <2>4. CASE make_rw(m)
    <3>1. Head(t) = "rw" /\ writable' = TRUE /\ mod' = Advance(m) /\ UNCHANGED <<table, deviations>>
      BY <2>4 DEF make_rw, Due
    <3>2. r.todo \in Within
      BY <2>1, <2>2, <3>1, AfterHead
    <3>3. writable' \in BOOLEAN /\ writable' = IF r.todo \in Within THEN TRUE ELSE FALSE
      BY <3>1, <3>2
    <3>4. table' = table /\ deviations' = deviations /\ mod' = [mod EXCEPT ![m] = r]
      BY <2>2, <3>1
    <3> HIDE DEF t
    <3> QED
      BY <1>0, <2>2, <2>3, <3>3, <3>4, ModFrame
  <2>5. CASE make_ro(m)
    <3>1. Head(t) = "ro" /\ writable' = FALSE /\ mod' = Advance(m) /\ UNCHANGED table
      BY <2>5 DEF make_ro, Due
    <3>2. r.todo \notin Within
      BY <2>1, <2>2, <3>1, AfterHead, Distinct
    <3>3. deviations \subseteq deviations'
      BY <2>5 DEF make_ro, Deviate
    <3>4. writable' \in BOOLEAN /\ writable' = IF r.todo \in Within THEN TRUE ELSE FALSE
      BY <3>1, <3>2
    <3>5. table' = table /\ mod' = [mod EXCEPT ![m] = r]
      BY <2>2, <3>1
    <3> HIDE DEF t
    <3> QED
      BY <1>0, <2>2, <2>3, <3>3, <3>4, <3>5, ModFrame
  <2>6. CASE Save(m)
    <3> DEFINE q == [r EXCEPT !.saved = table[Slot(m)]]
    <3>1. Head(t) = "save" /\ UNCHANGED <<table, writable, deviations>>
      BY <2>6 DEF Save, Due
    <3>2. table[Slot(m)] \in Functions \cup {"none"}
      BY <1>0 DEF Slot, Slots
    <3>3. q \in Record /\ q.todo = Tail(t) /\ q.st = r.st
      BY <2>2, <3>2 DEF Record
    <3>4. mod' = [mod EXCEPT ![m] = q]
      BY <1>0, <2>2, <2>6 DEF Save
    <3>5. t \in Within <=> q.todo \in Within
      BY <2>1, <3>1, <3>3, AfterHead
    <3>6. writable' \in BOOLEAN /\ table' = table /\ deviations' = deviations /\ writable' = writable
      BY <1>0, <3>1
    <3>7. q.st # "fault" /\ (q.st # "in" => q.todo = <<>>)
      BY <2>2, <3>3
    <3>8. "overlap" \notin deviations => writable' = IF q.todo \in Within THEN TRUE ELSE FALSE
      BY <2>3, <3>5, <3>6
    <3> HIDE DEF q, t
    <3> QED
      BY <1>0, <2>3, <3>3, <3>4, <3>6, <3>7, <3>8, ModFrame
  <2>7. ASSUME NEW s \in {"store", "restore"}, NEW f \in Functions \cup {"none"}, NEW list,
               Store(m, s, f, list)
        PROVE  HookInv'
    <3>1. t \in Within /\ r.todo \in Within /\ UNCHANGED <<writable, deviations>>
      BY <2>1, <2>2, <2>7, AfterHead DEF Store, Due
    <3>2. CASE writable
      <4>1. table' \in [Slots -> Functions \cup {"none"}] /\ mod' = [mod EXCEPT ![m] = r]
        BY <1>0, <2>2, <2>7, <3>2 DEF Store
      <4> QED
        BY <1>0, <2>2, <2>3, <3>1, <3>2, <4>1, ModFrame
    <3>3. CASE ~ writable
      <4> DEFINE q == [mod[m] EXCEPT !.st = "fault", !.todo = <<>>]
      <4>1. q \in Record /\ q.todo = <<>>
        BY <1>0 DEF Record, Todos
      <4>2. mod' = [mod EXCEPT ![m] = q] /\ UNCHANGED table
        BY <1>0, <2>7, <3>3 DEF Store
      <4>3. "overlap" \in deviations'
        BY <2>3, <3>1, <3>3
      <4> HIDE DEF q
      <4> QED
        BY <1>0, <3>1, <4>1, <4>2, <4>3, ModFrame
    <3> QED
      BY <3>2, <3>3
  <2>8. CASE Install(m)
    BY <2>7, <2>8 DEF Install, Functions
  <2>9. CASE Restore(m)
    <3>1. mod[m].saved \in Functions \cup {"none"}
      BY <1>0 DEF Record
    <3> QED
      BY <2>7, <2>9, <3>1 DEF Restore
  <2> QED
    BY <1>3, <2>4, <2>5, <2>6, <2>8, <2>9 DEF ModuleStep
<1>4. ASSUME NEW c \in Callers, SystemCall(c) \/ CallStep(c) PROVE HookInv'
  BY <1>4, CallFrame DEF SystemCall, CallStep, Others, os_ftrace, my_ftrace,
     os_ftrace_trampoline, file_varea, Return, Leave, Crash
<1>5. CASE UNCHANGED vars
  BY <1>5, CallFrame DEF vars
<1> QED
  BY <1>1, <1>2, <1>3, <1>4, <1>5 DEF Next

(* Modules that are loaded and unloaded one after the other, in any order  *)
(* and however often, never store into the protected table and leave it    *)
(* protected, whatever calls are made meanwhile.                           *)
THEOREM StoresSafe == Spec => []StoresAllowed
<1>1. HookInv => StoresAllowed
  <2> SUFFICES ASSUME HookInv, "overlap" \notin deviations, \A m \in Modules : ~ Busy(m)
               PROVE  ~ writable
    BY DEF HookInv, StoresAllowed
  <2> QED
    BY Distinct DEF HookInv, Busy
<1> QED
  BY <1>1, InitHookInv, NextHookInv, PTL DEF Spec

=============================================================================
