--------------------------- MODULE PackagesProofs ---------------------------
(***************************************************************************)
(* That the flag is_default is on exactly one package as long as nothing   *)
(* happened that SetDefault and Delete do not guard against, for every set *)
(* of names and any number of requests at a time.                          *)
(***************************************************************************)
EXTENDS Packages, TLAPS

\* What an undisturbed request that is under way can rely on: the one that sets the default is
\* the only request there is, and the flag is off everywhere; those that delete do not delete
\* the default package.
Undisturbed ==
    ~disturbed =>
        /\ \A g \in Setting :
              /\ defaults = {}
              /\ \A h \in Handlers \ {g} : request[h] = NoRequest
        /\ \A h \in Deleting : request[h].name \notin defaults

IInv == TypeOK /\ SoleDefault /\ Undisturbed

\* Requests: what a step does to the sets of handlers that are busy.
LEMMA BeginBusy ==
    ASSUME TypeOK, NEW h \in Handlers, NEW op \in {"set", "delete"}, NEW name \in Names,
           Free(h), Begin(h, op, name), NEW other \in {"set", "delete"}
    PROVE  /\ request' \in [Handlers -> Request \cup {NoRequest}]
           /\ Busy(other)' = Busy(other) \cup (IF other = op THEN {h} ELSE {})
           /\ request'[h] = [op |-> op, name |-> name]
           /\ \A g \in Handlers \ {h} : request'[g] = request[g]
  BY DEF TypeOK, Free, Begin, Busy, Request, NoRequest

LEMMA EndBusy ==
    ASSUME TypeOK, NEW h \in Handlers, End(h), NEW other \in {"set", "delete"}
    PROVE  /\ request' \in [Handlers -> Request \cup {NoRequest}]
           /\ Busy(other)' = Busy(other) \ {h}
           /\ request'[h] = NoRequest
           /\ \A g \in Handlers \ {h} : request'[g] = request[g]
  BY DEF TypeOK, End, Busy, Request, NoRequest

LEMMA BusyRequest ==
    ASSUME TypeOK, NEW h \in Handlers, request[h] # NoRequest
    PROVE  /\ h \in Setting \cup Deleting
           /\ request[h].name \in Names
  BY DEF TypeOK, Setting, Deleting, Busy, Request

LEMMA InitIInv == Init => IInv
<1> SUFFICES ASSUME Init PROVE IInv
  OBVIOUS
<1> USE PackagesAssumption DEF Init
<1>1. TypeOK
  BY DEF TypeOK
<1>2. Setting = {} /\ Deleting = {}
  BY DEF Setting, Deleting, Busy, NoRequest
<1>3. SoleDefault /\ Undisturbed
  BY <1>2 DEF SoleDefault, Undisturbed
<1> QED
  BY <1>1, <1>3 DEF IInv

LEMMA StepIInv == IInv /\ [Next]_vars => IInv'
<1> SUFFICES ASSUME IInv, [Next]_vars PROVE IInv'
  OBVIOUS
<1> USE PackagesAssumption DEF IInv
<1>1. ASSUME NEW h \in Handlers, NEW name \in Names, ClearDefault(h, name)
      PROVE  IInv'
  <2>1. /\ Setting' = Setting \cup {h}
        /\ Deleting' = Deleting
        /\ \A g \in Handlers \ {h} : request'[g] = request[g]
    BY <1>1, BeginBusy DEF ClearDefault, Setting, Deleting
  <2>2. TypeOK'
    BY <1>1, BeginBusy DEF ClearDefault, TypeOK
  <2>3. SoleDefault'
    BY <2>1 DEF SoleDefault
  <2>4. ~disturbed' => \A g \in Handlers \ {h} : request'[g] = NoRequest
    BY <1>1, <2>1, BusyRequest DEF ClearDefault
  <2>5. Undisturbed'
    <3>1. \A g \in Setting' : ~disturbed' => g = h
      BY <2>1, <1>1 DEF ClearDefault
    <3> QED
      BY <1>1, <2>4, <3>1 DEF Undisturbed, ClearDefault
  <2> QED
    BY <2>2, <2>3, <2>5
<1>2. ASSUME NEW h \in Handlers, NEW name \in Names, CheckDelete(h, name)
      PROVE  IInv'
  <2>1. /\ Setting' = Setting
        /\ Deleting' = Deleting \cup {h}
        /\ request'[h].name = name
        /\ \A g \in Handlers \ {h} : request'[g] = request[g]
    <3>1. Free(h) /\ Begin(h, "delete", name)
      BY <1>2 DEF CheckDelete
    <3>2. Setting' = Setting
      <4>1. Busy("set")' = Busy("set") \cup (IF "set" = "delete" THEN {h} ELSE {})
        BY <3>1, BeginBusy
      <4> QED
        BY <4>1 DEF Setting
    <3>3. Deleting' = Deleting \cup {h}
      <4>1. Busy("delete")' = Busy("delete") \cup (IF "delete" = "delete" THEN {h} ELSE {})
        BY <3>1, BeginBusy
      <4> QED
        BY <4>1 DEF Deleting
    <3>4. /\ request'[h] = [op |-> "delete", name |-> name]
          /\ \A g \in Handlers \ {h} : request'[g] = request[g]
      BY <3>1, BeginBusy
    <3> QED
      BY <3>2, <3>3, <3>4
  <2>2. TypeOK'
    BY <1>2, BeginBusy DEF CheckDelete, TypeOK
  <2>3. SoleDefault'
    BY <1>2, <2>1 DEF SoleDefault, CheckDelete
  <2>4. Undisturbed'
    <3> SUFFICES ASSUME ~disturbed'
                 PROVE  Setting' = {} /\ \A g \in Deleting' : request'[g].name \notin defaults'
      BY DEF Undisturbed
    <3>1. Setting = {} /\ ~disturbed
      BY <1>2 DEF CheckDelete
    <3>2. \A g \in Deleting : g \in Handlers
      BY DEF Deleting, Busy
    <3> QED
      BY <1>2, <2>1, <3>1, <3>2 DEF CheckDelete, Deletable, Undisturbed
  <2> QED
    BY <2>2, <2>3, <2>4
<1>3. ASSUME NEW h \in Handlers, MarkDefault(h)
      PROVE  IInv'
  <2> DEFINE name == request[h].name
  <2>1. /\ Setting' = Setting \ {h}
        /\ Deleting' = Deleting \ {h}
    BY <1>3, EndBusy DEF MarkDefault, Setting, Deleting
  <2>2. TypeOK'
    BY <1>3, EndBusy DEF MarkDefault, Matching, TypeOK
  <2>3. ASSUME ~disturbed'
        PROVE  /\ defaults' = {name}
               /\ name \in plans'
               /\ Setting' = {}
               /\ Deleting' = {}
    <3>1. ~disturbed /\ name \in plans /\ plans' = plans
      BY <1>3, <2>3 DEF MarkDefault, Matching
    <3>2. defaults = {} /\ \A g \in Handlers \ {h} : request[g] = NoRequest
      BY <1>3, <3>1 DEF MarkDefault, Undisturbed
    <3>3. Setting \subseteq {h} /\ Deleting \subseteq {h}
      BY <3>2 DEF Setting, Deleting, Busy, NoRequest
    <3> QED
      BY <1>3, <2>1, <3>1, <3>2, <3>3 DEF MarkDefault, Matching
  <2>4. SoleDefault' /\ Undisturbed'
    BY <2>3 DEF SoleDefault, Undisturbed
  <2> QED
    BY <2>2, <2>4
<1>4. ASSUME NEW h \in Handlers, MarkFails(h)
      PROVE  IInv'
  <2>1. TypeOK'
    BY <1>4, EndBusy DEF MarkFails, TypeOK
  <2>2. SoleDefault' /\ Undisturbed'
    BY <1>4 DEF MarkFails, SoleDefault, Undisturbed
  <2> QED
    BY <2>1, <2>2
<1>5. ASSUME NEW h \in Handlers, DeletePlan(h)
      PROVE  IInv'
  <2>1. /\ Setting' = Setting \ {h}
        /\ Deleting' = Deleting \ {h}
        /\ \A g \in Handlers \ {h} : request'[g] = request[g]
        /\ request'[h] = NoRequest
    BY <1>5, EndBusy DEF DeletePlan, Setting, Deleting
  <2>2. h \notin Setting
    BY <1>5 DEF DeletePlan, Setting, Deleting, Busy
  <2>3. TypeOK'
    BY <1>5, EndBusy DEF DeletePlan, TypeOK
  <2>4. ASSUME ~disturbed'
        PROVE  defaults' = defaults
    BY <1>5, <2>4 DEF DeletePlan, Undisturbed
  <2>5. SoleDefault'
    BY <1>5, <2>1, <2>2, <2>4 DEF DeletePlan, SoleDefault, Undisturbed
  <2>6. \A g \in Deleting : g \in Handlers
    BY DEF Deleting, Busy
  <2>7. Undisturbed'
    BY <1>5, <2>1, <2>2, <2>4, <2>6 DEF DeletePlan, Undisturbed
  <2> QED
    BY <2>3, <2>5, <2>7
<1>6. ASSUME NEW h \in Handlers, DeleteFails(h)
      PROVE  IInv'
  <2>1. /\ Setting' = Setting \ {h}
        /\ Deleting' = Deleting \ {h}
        /\ \A g \in Handlers \ {h} : request'[g] = request[g]
        /\ request'[h] = NoRequest
    BY <1>6, EndBusy DEF DeleteFails, Setting, Deleting
  <2>2. h \notin Setting
    BY <1>6 DEF DeleteFails, Setting, Deleting, Busy
  <2>3. TypeOK'
    BY <1>6, EndBusy DEF DeleteFails, TypeOK
  <2>4. \A g \in Deleting : g \in Handlers
    BY DEF Deleting, Busy
  <2>5. SoleDefault' /\ Undisturbed'
    BY <1>6, <2>1, <2>2, <2>4 DEF DeleteFails, SoleDefault, Undisturbed
  <2> QED
    BY <2>3, <2>5
<1>7. ASSUME NEW name \in Names, CreateOrUpdate(name)
      PROVE  IInv'
  <2>1. TypeOK'
    BY <1>7 DEF CreateOrUpdate, TypeOK
  <2>2. Setting' = Setting /\ Deleting' = Deleting
    BY <1>7 DEF CreateOrUpdate, Setting, Deleting, Busy
  <2>3. SoleDefault' /\ Undisturbed'
    BY <1>7, <2>2 DEF CreateOrUpdate, SoleDefault, Undisturbed
  <2> QED
    BY <2>1, <2>3
<1>8. CASE Restart
  <2>1. TypeOK'
    BY <1>8 DEF Restart, TypeOK, Seeded
  <2>2. Setting' = {} /\ Deleting' = {}
    BY <1>8 DEF Restart, Setting, Deleting, Busy, NoRequest
  <2>3. ASSUME ~disturbed'
        PROVE  ~disturbed /\ Setting = {} /\ defaults' = defaults /\ plans \subseteq plans'
    BY <1>8, <2>3 DEF Restart, Seeded
  <2>4. SoleDefault' /\ Undisturbed'
    BY <2>2, <2>3 DEF SoleDefault, Undisturbed
  <2> QED
    BY <2>1, <2>4
<1>9. CASE UNCHANGED vars
  <2>1. TypeOK'
    BY <1>9 DEF vars, TypeOK
  <2>2. SoleDefault' /\ Undisturbed'
    BY <1>9 DEF vars, SoleDefault, Undisturbed, Setting, Deleting, Busy
  <2> QED
    BY <2>1, <2>2
<1> QED
  BY <1>1, <1>2, <1>3, <1>4, <1>5, <1>6, <1>7, <1>8, <1>9 DEF Next

\* SetDefault, Delete and the seeding at start keep exactly one default package, whatever order
\* their statements come in, up to the four cases SoleDefault names.
THEOREM OneDefault == Spec => []SoleDefault
<1>1. IInv => SoleDefault
  BY DEF IInv
<1> QED
  BY <1>1, InitIInv, StepIInv, PTL DEF Spec

-----------------------------------------------------------------------------
(* When the default package stays *)

\* No request sets the default while another is between the check and the deletion.
Apart == Setting = {} \/ Deleting = {}

\* What the check of a deletion found still holds.
CheckHolds == \A h \in Deleting : request[h].name \notin defaults

LEMMA StepCheckHolds == TypeOK /\ CheckHolds /\ Apart /\ [Next]_vars => CheckHolds'
<1> SUFFICES ASSUME TypeOK, CheckHolds, Apart, [Next]_vars,
                    NEW g \in Deleting'
             PROVE  request'[g].name \notin defaults'
  BY DEF CheckHolds
<1>1. g \in Handlers
  BY DEF Deleting, Busy
<1>2. ASSUME NEW h \in Handlers, NEW name \in Names, ClearDefault(h, name)
      PROVE  request'[g].name \notin defaults'
  BY <1>2 DEF ClearDefault
<1>3. ASSUME NEW h \in Handlers, NEW name \in Names, CheckDelete(h, name)
      PROVE  request'[g].name \notin defaults'
  <2>1. Free(h) /\ Begin(h, "delete", name) /\ defaults' = defaults /\ name \notin defaults
    BY <1>3 DEF CheckDelete, Deletable
  <2>2. /\ request'[h] = [op |-> "delete", name |-> name]
        /\ Busy("delete")' = Busy("delete") \cup (IF "delete" = "delete" THEN {h} ELSE {})
        /\ \A k \in Handlers \ {h} : request'[k] = request[k]
    BY <2>1, BeginBusy
  <2>3. CASE g = h
    BY <2>1, <2>2, <2>3
  <2>4. CASE g # h
    BY <1>1, <2>1, <2>2, <2>4 DEF CheckHolds, Deleting
  <2> QED
    BY <2>3, <2>4
<1>4. ASSUME NEW h \in Handlers, End(h), defaults' \subseteq defaults
      PROVE  request'[g].name \notin defaults'
  <2>1. Busy("delete")' = Busy("delete") \ {h} /\ \A k \in Handlers \ {h} : request'[k] = request[k]
    BY <1>4, EndBusy
  <2> QED
    BY <1>1, <1>4, <2>1 DEF CheckHolds, Deleting
<1>5. ASSUME NEW h \in Handlers, MarkDefault(h)
      PROVE  request'[g].name \notin defaults'
  <2>1. Deleting = {}
    BY <1>5 DEF MarkDefault, Apart
  <2>2. Busy("delete")' = Busy("delete") \ {h}
    BY <1>5, EndBusy DEF MarkDefault
  <2> QED
    BY <2>1, <2>2 DEF Deleting
<1>6. ASSUME NEW h \in Handlers, MarkFails(h) \/ DeletePlan(h) \/ DeleteFails(h)
      PROVE  request'[g].name \notin defaults'
  BY <1>4, <1>6 DEF MarkFails, DeletePlan, DeleteFails
<1>7. ASSUME NEW name \in Names, CreateOrUpdate(name)
      PROVE  request'[g].name \notin defaults'
  BY <1>7 DEF CreateOrUpdate, CheckHolds, Deleting, Busy
<1>8. ~Restart
  BY <1>1 DEF Restart, Deleting, Busy, NoRequest
<1>9. CASE UNCHANGED vars
  BY <1>9 DEF vars, CheckHolds, Deleting, Busy
<1> QED
  BY <1>2, <1>3, <1>5, <1>6, <1>7, <1>8, <1>9 DEF Next

LEMMA StepKeepsDefault ==
    TypeOK /\ CheckHolds /\ [Next]_vars => [\A name \in defaults : name \in plans']_vars
<1> SUFFICES ASSUME TypeOK, CheckHolds, Next, NEW name \in defaults
             PROVE  name \in plans'
  OBVIOUS
<1>1. name \in plans
  BY DEF TypeOK
<1>2. ASSUME NEW h \in Handlers, DeletePlan(h)
      PROVE  name \in plans'
  BY <1>1, <1>2 DEF DeletePlan, CheckHolds
<1> QED
  BY <1>1, <1>2
  DEF Next, ClearDefault, CheckDelete, MarkDefault, MarkFails, DeleteFails, CreateOrUpdate, Restart

\* Delete removes the default package only if SetDefault of another request comes between its
\* check and its deletion: where the two never overlap, what package_repo.go says holds, whatever
\* fails and restarts.
THEOREM DefaultStaysApart == Spec /\ []Apart => DefaultStays
<1>1. Init => CheckHolds
  BY DEF Init, CheckHolds, Deleting, Busy, NoRequest
<1>2. IInv => TypeOK
  BY DEF IInv
<1> QED
  BY <1>1, <1>2, InitIInv, StepIInv, StepCheckHolds, StepKeepsDefault, PTL DEF Spec, DefaultStays
=============================================================================
