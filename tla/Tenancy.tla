------------------------------ MODULE Tenancy ------------------------------
(***************************************************************************)
(* Tenants, their users and the activation codes that open a workspace, as *)
(* auth_service.py keeps them in MySQL for the Python web API.  A request  *)
(* reads in one statement and writes in a later one, and requests overlap: *)
(* the handlers run in threads, each with a connection of its own.  Reads  *)
(* take no lock; the writes of a transaction hold row locks to its commit, *)
(* so they are one step here, and the reads before them another.           *)
(***************************************************************************)
EXTENDS Naturals, FiniteSets

CONSTANTS
    Requests,    \* requests being served at the same time
    Tenants,     \* each is registered by the user of the same name
    Platform,    \* the tenant of the administrator, there from the start
    Codes,
    Durations,   \* minutes a code or an extension is worth
    Changes,     \* what an administrator may ask for in one update
    MaxTime,     \* bound of the clock
    MaxUpdates   \* bound of the administrator's updates

None == "none"

ASSUME TenancyConstants ==
    /\ Platform \in Tenants
    /\ Durations \subseteq Nat \ {0}
    /\ Changes \subseteq [status : {None, "active", "disabled"},
                          required : {None, "on", "off"}, extend : {0} \cup Durations]
    /\ \A change \in Changes :
         change.status # None \/ change.required # None \/ change.extend # 0
    /\ MaxTime \in Nat
    /\ MaxUpdates \in Nat

VARIABLES
    clock,
    tenant,    \* the row of tenants, or Absent
    userId,    \* users.id of the tenant's owner, 0 before it registers
    session,   \* tenants whose owner has a row in auth_sessions
    code,      \* the row of activation_codes
    req,       \* what the thread of a request holds between its statements
    updates    \* updates begun, for the bound

vars == <<clock, tenant, userId, session, code, req, updates>>

\* access_expires_at NULL.  No time is 0: an access that ends does so after 0.
Unlimited == 0

Absent == [status |-> "absent", required |-> FALSE, activated |-> FALSE,
           expires |-> Unlimited]
NewCode == [status |-> "none", by |-> None, worth |-> 0]

Idle == [pc |-> "idle", tenant |-> None, row |-> Absent, code |-> None, until |-> 0,
         change |-> [status |-> None, required |-> None, extend |-> 0], id |-> 0,
         spent |-> {}, overtaken |-> FALSE]

Max2(a, b) == IF a > b THEN a ELSE b

TypeOK ==
    /\ clock \in 0..MaxTime
    /\ \A t \in Tenants :
         /\ tenant[t].status \in {"absent", "active", "disabled"}
         /\ tenant[t].expires \in Nat
         /\ userId[t] \in 0..Cardinality(Tenants)
    /\ session \subseteq Tenants
    /\ \A c \in Codes :
         /\ code[c].status \in {"none", "unused", "redeemed"}
         /\ code[c].status = "redeemed" <=> code[c].by # None
    /\ \A q \in Requests :
         req[q].pc \in {"idle", "login", "redeem", "redeeming", "update", "register"}
    /\ updates \in 0..MaxUpdates

Init ==
    /\ clock = 0
    /\ tenant = [t \in Tenants |->
         IF t = Platform THEN [Absent EXCEPT !.status = "active", !.activated = TRUE]
                         ELSE Absent]
    /\ userId = [t \in Tenants |-> IF t = Platform THEN 1 ELSE 0]
    /\ session = {}
    /\ code = [c \in Codes |-> NewCode]
    /\ req = [q \in Requests |-> Idle]
    /\ updates = 0

\* workspace_enabled of a row, read now or a while ago.
WorkspaceEnabled(row) ==
    /\ row.status = "active"
    /\ ~row.required \/ row.activated
    /\ row.expires = Unlimited \/ row.expires > clock

Ends(q) == req' = [req EXCEPT ![q] = Idle]

\* The user is known and create_session comes next.
Enters(q, t) == req' = [req EXCEPT ![q] = [Idle EXCEPT !.pc = "login", !.tenant = t]]

\* The row of t changes: whoever read it before works on an old copy.
Overtake(q, t) == req' = [p \in Requests |->
    IF p = q THEN Idle
    ELSE IF req[p].tenant = t /\ req[p].pc # "login"
      THEN [req[p] EXCEPT !.overtaken = TRUE]
      ELSE req[p]]

-----------------------------------------------------------------------------
(* Registration. *)

\* register_tenant_user_sync: the user name is free and the next id is read,
\* all from the snapshot the transaction took with its first SELECT.
RegisterReads(q, t) ==
    /\ req[q] = Idle
    /\ userId[t] = 0
    /\ req' = [req EXCEPT ![q] = [Idle EXCEPT !.pc = "register", !.tenant = t,
         !.id = 1 + CHOOSE n \in {userId[u] : u \in Tenants} :
                      \A u \in Tenants : userId[u] <= n]]
    /\ UNCHANGED <<clock, tenant, userId, session, code, updates>>

Taken(q) == \E u \in Tenants : userId[u] = req[q].id \/ (u = req[q].tenant /\ userId[u] # 0)

\* Mutant: the rows are written with REPLACE, as for tasks.
RegisterReplaces(q) ==
    LET t == req[q].tenant IN
    /\ req[q].pc = "register"
    /\ tenant' = [tenant EXCEPT ![t] = [Absent EXCEPT !.status = "active", !.required = TRUE]]
    /\ userId' = [u \in Tenants |-> IF u = t THEN req[q].id
                                    ELSE IF userId[u] = req[q].id THEN 0 ELSE userId[u]]
    /\ Enters(q, t)
    /\ UNCHANGED <<clock, session, code, updates>>

\* Tenant, user and membership in one transaction; a duplicate name or id
\* raises and all three are rolled back.  The new user is logged in at once.
RegisterWrites(q) ==
    LET t == req[q].tenant IN
    /\ req[q].pc = "register"
    /\ IF Taken(q)
         THEN Ends(q) /\ UNCHANGED <<tenant, userId>>
         ELSE /\ tenant' = [tenant EXCEPT ![t] =
                   [Absent EXCEPT !.status = "active", !.required = TRUE]]
              /\ userId' = [userId EXCEPT ![t] = req[q].id]
              /\ Enters(q, t)
    /\ UNCHANGED <<clock, session, code, updates>>

-----------------------------------------------------------------------------
(* Sessions. *)

\* The user's tenant, through the membership, is active.
MayEnter(t) == userId[t] # 0 /\ tenant[t].status = "active"

\* authenticate_credentials, for a login.
LoginReads(q, t) ==
    /\ req[q] = Idle
    /\ MayEnter(t)
    /\ Enters(q, t)
    /\ UNCHANGED <<clock, tenant, userId, session, code, updates>>

\* create_session, on a connection of its own, whatever the tenant is by now.
SessionBegins(q) ==
    /\ req[q].pc = "login"
    /\ session' = session \cup {req[q].tenant}
    /\ Ends(q)
    /\ UNCHANGED <<clock, tenant, userId, code, updates>>

\* delete_session at a logout, or get_user_by_session finds it expired.
SessionEnds(t) ==
    /\ t \in session
    /\ session' = session \ {t}
    /\ UNCHANGED <<clock, tenant, userId, code, req, updates>>

-----------------------------------------------------------------------------
(* Activation codes. *)

\* create_activation_codes_sync, for the administrator: a code that is new.
CreateCode(c) ==
    /\ Platform \in session
    /\ code[c].status = "none"
    /\ \E worth \in Durations :
         code' = [code EXCEPT ![c] = [NewCode EXCEPT !.status = "unused", !.worth = worth]]
    /\ UNCHANGED <<clock, tenant, userId, session, req, updates>>

\* Mutant: the status of the tenant is not looked at.
AskAnyStatus(q, t, c) ==
    /\ req[q] = Idle /\ t \in session \ {Platform}
    /\ req' = [req EXCEPT ![q] = [Idle EXCEPT !.pc = "redeem", !.tenant = t, !.code = c,
         !.row = tenant[t], !.spent = {d \in Codes : code[d].status = "redeemed"}]]
    /\ UNCHANGED <<clock, tenant, userId, session, code, updates>>

\* POST /auth/activate: get_user_by_session reads the tenant.
Ask(q, t, c) ==
    /\ req[q] = Idle /\ t \in session \ {Platform} /\ MayEnter(t)
    /\ req' = [req EXCEPT ![q] = [Idle EXCEPT !.pc = "redeem", !.tenant = t, !.code = c,
         !.row = tenant[t], !.spent = {d \in Codes : code[d].status = "redeemed"}]]
    /\ UNCHANGED <<clock, tenant, userId, session, code, updates>>

\* Mutant: the code only has to exist.
RedeemReadsAny(q) ==
    /\ req[q].pc = "redeem"
    /\ ~WorkspaceEnabled(req[q].row) /\ code[req[q].code].status # "none"
    /\ req' = [req EXCEPT ![q].pc = "redeeming", ![q].row = Absent,
                          ![q].until = clock + code[req[q].code].worth]
    /\ UNCHANGED <<clock, tenant, userId, session, code, updates>>

\* redeem_activation_code_sync: the tenant, as it was read, needs the code and
\* the code is unused.
RedeemReads(q) ==
    /\ req[q].pc = "redeem"
    /\ ~WorkspaceEnabled(req[q].row) /\ code[req[q].code].status = "unused"
    /\ req' = [req EXCEPT ![q].pc = "redeeming", ![q].row = Absent,
                          ![q].until = clock + code[req[q].code].worth]
    /\ UNCHANGED <<clock, tenant, userId, session, code, updates>>

\* It is refused: already open, unknown or used.
RedeemRefused(q) ==
    /\ req[q].pc = "redeem"
    /\ WorkspaceEnabled(req[q].row) \/ code[req[q].code].status # "unused"
    /\ Ends(q)
    /\ UNCHANGED <<clock, tenant, userId, session, code, updates>>

\* Mutant: the code does not say who redeemed it.
RedeemUnsigned(q) ==
    LET t == req[q].tenant IN
    /\ req[q].pc = "redeeming"
    /\ code' = [code EXCEPT ![req[q].code].status = "redeemed"]
    /\ tenant' = [tenant EXCEPT ![t].activated = TRUE, ![t].expires = req[q].until,
                                ![t].status = "active"]
    /\ Overtake(q, t)
    /\ UNCHANGED <<clock, userId, session, updates>>

\* UPDATE activation_codes ... WHERE id, UPDATE tenants ... WHERE id, commit:
\* neither looks at what the rows hold now.
RedeemWrites(q) ==
    LET t == req[q].tenant IN
    /\ req[q].pc = "redeeming"
    /\ code' = [code EXCEPT ![req[q].code].status = "redeemed", ![req[q].code].by = t]
    /\ tenant' = [tenant EXCEPT ![t].activated = TRUE, ![t].expires = req[q].until,
                                ![t].status = "active"]
    /\ Overtake(q, t)
    /\ UNCHANGED <<clock, userId, session, updates>>

-----------------------------------------------------------------------------
(* The administrator's updates. *)

\* Mutant: the extension always counts from now.
ExtendedFromNow(row, minutes) == clock + minutes

\* An extension counts from the end of the access, if it has one that is still
\* to come, and otherwise from now: an access without an end is given one.
Extended(row, minutes) ==
    (IF row.expires # Unlimited /\ row.expires > clock THEN row.expires ELSE clock) + minutes

\* update_tenant_access_sync reads the row, checks it and computes the expiry.
UpdateReads(q, t, change) ==
    /\ Platform \in session
    /\ req[q] = Idle /\ tenant[t].status # "absent"
    /\ t = Platform => change.required # "on" /\ change.status # "disabled"
    /\ updates < MaxUpdates /\ updates' = updates + 1
    /\ req' = [req EXCEPT ![q] = [Idle EXCEPT !.pc = "update", !.tenant = t,
         !.row.required = tenant[t].required, !.change = change,
         !.until = IF change.extend = 0 THEN 0 ELSE Extended(tenant[t], change.extend)]]
    /\ UNCHANGED <<clock, tenant, userId, session, code>>

\* The one UPDATE with the columns the change names.
UpdateWrites(q) ==
    LET t == req[q].tenant
        change == req[q].change
        waived == change.required = "off" IN
    /\ req[q].pc = "update"
    /\ tenant' = [tenant EXCEPT ![t] =
         [status |-> IF change.extend # 0 /\ req[q].row.required /\ change.status # "disabled"
                       THEN "active"
                       ELSE IF change.status = None THEN @.status ELSE change.status,
          required |-> IF change.required = None THEN @.required ELSE change.required = "on",
          activated |-> @.activated \/ waived \/ change.extend # 0,
          expires |-> IF change.extend # 0 THEN req[q].until
                      ELSE IF waived THEN Unlimited ELSE @.expires]]
    /\ Overtake(q, t)
    /\ UNCHANGED <<clock, userId, session, code, updates>>

Tick ==
    /\ clock < MaxTime
    /\ clock' = clock + 1
    /\ UNCHANGED <<tenant, userId, session, code, req, updates>>

-----------------------------------------------------------------------------

Next ==
    \/ \E q \in Requests :
         \/ RegisterWrites(q) \/ SessionBegins(q) \/ RedeemReads(q) \/ RedeemRefused(q)
         \/ RedeemWrites(q) \/ UpdateWrites(q)
         \/ \E t \in Tenants :
              \/ RegisterReads(q, t) \/ LoginReads(q, t)
              \/ \E c \in Codes : Ask(q, t, c)
              \/ \E change \in Changes : UpdateReads(q, t, change)
    \/ \E t \in Tenants : SessionEnds(t)
    \/ \E c \in Codes : CreateCode(c)
    \/ Tick

Spec == Init /\ [][Next]_vars

-----------------------------------------------------------------------------
(* Properties. *)

\* A tenant is there with its owner or not at all, and no two owners share an
\* id, whatever registrations overlap.
RegisteredWhole ==
    /\ \A t \in Tenants : tenant[t] = Absent <=> userId[t] = 0
    /\ \A t, u \in Tenants : userId[t] = userId[u] /\ t # u => userId[t] = 0

\* A code whose redemption was committed before a request began is not spent
\* by that request: only requests that overlap can share a code.
SpentIsRefused ==
    \A q \in Requests :
      req[q].pc = "redeeming" => req[q].code \notin req[q].spent

\* A tenant the administrator disabled is active again only by an update of
\* the administrator or a request that was let in before.
DisableHolds ==
    [][\A t \in Tenants :
         tenant[t].status = "disabled" /\ tenant'[t].status = "active" =>
           \E q \in Requests :
             /\ req[q].tenant = t /\ req'[q] = Idle
             /\ req[q].pc = "update" \/ (req[q].pc = "redeeming" /\ req[q].overtaken)]_vars

\* Where the access of the tenant has an end, an extension moves it by all its
\* minutes, and by no more than that from now or from that end, unless another
\* request changed the row after the extension read it.  An access without an
\* end gets one, so nothing of the kind holds there.
ExtensionAdds ==
    [][\A q \in Requests :
         LET ends == tenant[req[q].tenant].expires
             minutes == req[q].change.extend IN
         /\ req[q].pc = "update" /\ req'[q] = Idle
         /\ minutes # 0 /\ ~req[q].overtaken /\ ends # Unlimited
         => tenant'[req[q].tenant].expires \in ends + minutes .. Max2(clock, ends) + minutes]_vars

=============================================================================
