------------------------------ MODULE Packages ------------------------------
(***************************************************************************)
(* The table package_plans and the flag is_default in it: the package a    *)
(* new account gets when nobody names one (userRegister, createUser).      *)
(*                                                                         *)
(* SetDefault and Delete are two statements each, without a transaction,   *)
(* and every HTTP request runs in a goroutine of its own, so the statement *)
(* of one request comes between those of another.  Every start of the      *)
(* process inserts the packages it comes with, if their names are free.    *)
(*                                                                         *)
(* A package is its name: the limits in its row bear on nothing here.      *)
(* Requests that fail before they change anything are left out.            *)
(***************************************************************************)
CONSTANTS
    Names,          \* what a request may name, packages that exist or not
    Seeds,          \* the packages of db.go: starter, pro, enterprise
    Starter,        \* the one of them that is inserted as the default
    NoName,
    Handlers        \* requests that are served at a time

ASSUME PackagesAssumption ==
    /\ Starter \in Seeds
    /\ Seeds \subseteq Names
    /\ NoName \notin Names

VARIABLES
    plans,          \* the names in the table
    defaults,       \* those with is_default = 1
    request,        \* request[h]: the call handler h is in the middle of, or NoRequest
    disturbed       \* observation: something happened that the code does not guard against

vars == <<plans, defaults, request, disturbed>>

Request == [op : {"set", "delete"}, name : Names]
NoRequest == [op |-> "none", name |-> NoName]

TypeOK ==
    /\ plans \subseteq Names
    /\ defaults \subseteq plans
    /\ request \in [Handlers -> Request \cup {NoRequest}]
    /\ disturbed \in BOOLEAN

\* A new database.
Init ==
    /\ plans = Seeds
    /\ defaults = {Starter}
    /\ request = [h \in Handlers |-> NoRequest]
    /\ disturbed = FALSE

-----------------------------------------------------------------------------

Busy(op) == {h \in Handlers : request[h].op = op}
Setting == Busy("set")
Deleting == Busy("delete")

Free(h) == request[h] = NoRequest
Begin(h, op, name) == request' = [request EXCEPT ![h] = [op |-> op, name |-> name]]
End(h) == request' = [request EXCEPT ![h] = NoRequest]

\* CreateOrUpdate: a new package is not the default, an old one stays what it is.
CreateOrUpdate(name) ==
    /\ plans' = plans \cup {name}
    /\ UNCHANGED <<defaults, request, disturbed>>

\* SetDefault, first statement: UPDATE package_plans SET is_default=0.  Whatever was wrong
\* with the flag before is mended, if no other request is under way.
ClearDefault(h, name) ==
    /\ Free(h)
    /\ defaults' = {}
    /\ disturbed' = (Setting \cup Deleting # {})
    /\ Begin(h, "set", name)
    /\ UNCHANGED plans

\* WHERE name=?
Matching(name) == {name} \cap plans

\* SetDefault, second statement.  That it matches no row is no error.
MarkDefault(h) ==
    /\ h \in Setting
    /\ defaults' = defaults \cup Matching(request[h].name)
    /\ disturbed' = (disturbed \/ Matching(request[h].name) = {})
    /\ End(h)
    /\ UNCHANGED plans

\* The second statement fails; the first is not undone.
MarkFails(h) ==
    /\ h \in Setting
    /\ disturbed' = TRUE
    /\ End(h)
    /\ UNCHANGED <<plans, defaults>>

\* The check is forgotten.
Deletable_bug(name) == name \in plans

\* GetByName finds the package, and it is not the default.
Deletable(name) == name \in plans \ defaults

CheckDelete(h, name) ==
    /\ Free(h)
    /\ Deletable(name)
    /\ disturbed' = (disturbed \/ Setting # {})
    /\ Begin(h, "delete", name)
    /\ UNCHANGED <<plans, defaults>>

\* DELETE FROM package_plans WHERE name=?
DeletePlan(h) ==
    /\ h \in Deleting
    /\ plans' = plans \ {request[h].name}
    /\ defaults' = defaults \ {request[h].name}
    /\ End(h)
    /\ UNCHANGED disturbed

DeleteFails(h) ==
    /\ h \in Deleting
    /\ End(h)
    /\ UNCHANGED <<plans, defaults, disturbed>>

\* INSERT OR IGNORE: the defaults that the start adds.
Seeded == {Starter} \ plans

\* The process ends, with every request it is serving, and OpenAndMigrate runs before
\* anything else.  (A start that fails half-way ends the process; the next one finishes.)
Restart ==
    /\ plans' = plans \cup Seeds
    /\ defaults' = defaults \cup Seeded
    /\ request' = [h \in Handlers |-> NoRequest]
    /\ disturbed' = (disturbed \/ Setting # {} \/ Starter \notin plans)

Next ==
    \/ \E h \in Handlers :
        \/ \E name \in Names : ClearDefault(h, name) \/ CheckDelete(h, name)
        \/ MarkDefault(h) \/ MarkFails(h)
        \/ DeletePlan(h) \/ DeleteFails(h)
    \/ \E name \in Names : CreateOrUpdate(name)
    \/ Restart

Spec == Init /\ [][Next]_vars

-----------------------------------------------------------------------------

\* Between requests that set it there is exactly one default package, unless, since the flag
\* was last cleared, one of these happened: SetDefault was given a name that is not there, or
\* ended after its first statement; a request overlapped one that sets the default; the
\* process started while there was no package of the name starter.
SoleDefault ==
    ~disturbed /\ Setting = {} => \E name \in plans : defaults = {name}

\* The default package is not deleted (package_repo.go: "cannot delete default package").
DefaultStays ==
    [][\A name \in defaults : name \in plans']_vars
=============================================================================
