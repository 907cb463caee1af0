--------------------------- MODULE Tenancy_proofs ---------------------------
(***************************************************************************)
(* Theorems about Tenancy: for any number of requests, tenants and codes,  *)
(* whatever an administrator may ask for, and however requests overlap.    *)
(***************************************************************************)
EXTENDS Tenancy, FiniteSetTheorems, TLAPS

RowType == [status : {"absent", "active", "disabled"}, required : BOOLEAN,
            activated : BOOLEAN, expires : Nat]
CodeType == [status : {"none", "unused", "redeemed"}, by : Tenants \cup {None}, worth : Nat]
ChangeType == [status : {None, "active", "disabled"}, required : {None, "on", "off"},
               extend : Nat]
ReqType == [pc : {"idle", "login", "redeem", "redeeming", "update", "register"},
            tenant : Tenants \cup {None}, row : RowType, code : Codes \cup {None},
            until : Nat, change : ChangeType, id : Nat, spent : SUBSET Codes,
            overtaken : BOOLEAN]

TypeInv ==
    /\ clock \in Nat
    /\ tenant \in [Tenants -> RowType]
    /\ userId \in [Tenants -> Nat]
    /\ code \in [Codes -> CodeType]
    /\ req \in [Requests -> ReqType]

\* RegisteredWhole, and what it takes to keep it: one id is the largest, so
\* that the next one is above zero, and the row of an owner is never absent.
WholeInv ==
    /\ \A t \in Tenants : userId[t] = 0 => tenant[t] = Absent
    /\ \A t \in Tenants : userId[t] # 0 => tenant[t].status # "absent"
    /\ \A t, u \in Tenants : t # u /\ userId[t] = userId[u] => userId[t] = 0
    /\ \E u \in Tenants : \A v \in Tenants : userId[v] <= userId[u]

\* What the thread of a request may rely on, although the rows move on.
ReqInv(q) ==
    /\ req[q].pc # "idle" => req[q].tenant \in Tenants
    /\ req[q].pc = "register" => req[q].id # 0
    /\ req[q].pc \in {"redeem", "redeeming", "update"} => userId[req[q].tenant] # 0
    /\ req[q].pc \in {"redeem", "redeeming"} => req[q].code \in Codes

\* What was spent when a redemption began is spent still, and not its code.
SpentInv(q) ==
    /\ req[q].pc = "redeem" => \A d \in req[q].spent : code[d].status = "redeemed"
    /\ req[q].pc = "redeeming" => req[q].code \notin req[q].spent

\* An expiry that adds these minutes to an access with this end.
Adds(until, ends, minutes, now) ==
    ends # Unlimited => until \in ends + minutes .. Max2(now, ends) + minutes

\* Who has not been overtaken still acts on the row as it is.
FreshInv(q) ==
    /\ req[q].pc \in {"redeem", "redeeming"} /\ tenant[req[q].tenant].status = "disabled"
         => req[q].overtaken
    /\ req[q].pc = "update" /\ req[q].change.extend # 0 /\ ~req[q].overtaken
         => Adds(req[q].until, tenant[req[q].tenant].expires, req[q].change.extend, clock)

IInv ==
    /\ TypeInv
    /\ WholeInv
    /\ \A q \in Requests : ReqInv(q) /\ SpentInv(q) /\ FreshInv(q)

-----------------------------------------------------------------------------
(* Types *)

LEMMA IdleType == Idle \in ReqType /\ Absent \in RowType
  BY DEF Idle, Absent, Unlimited, ReqType, RowType, ChangeType

LEMMA ChangesType == ASSUME NEW change \in Changes PROVE change \in ChangeType
<1>1. \A n \in {0} \cup Durations : n \in Nat
  BY TenancyConstants
<1>2. change \in [status : {None, "active", "disabled"}, required : {None, "on", "off"},
                   extend : {0} \cup Durations]
  BY TenancyConstants
<1> QED BY <1>1, <1>2 DEF ChangeType

\* The id a registration reads is a new number above zero.
LEMMA NextId ==
  ASSUME IInv
  PROVE  1 + (CHOOSE n \in {userId[u] : u \in Tenants} :
                 \A u \in Tenants : userId[u] <= n) \in Nat \ {0}
<1> DEFINE Ids == {userId[u] : u \in Tenants}
           Top(n) == \A u \in Tenants : userId[u] <= n
           top == CHOOSE n \in Ids : Top(n)
<1>1. \E n \in Ids : Top(n)
  BY DEF IInv, WholeInv
<1>2. top \in Ids
  BY <1>1
<1>3. \A n \in Ids : n \in Nat
  BY DEF IInv, TypeInv
<1>4. top \in Nat
  BY <1>2, <1>3
<1> HIDE DEF top
<1>5. 1 + top \in Nat \ {0}
  BY <1>4
<1> QED BY <1>5 DEF top

LEMMA InitIInv == Init => IInv
<1> SUFFICES ASSUME Init PROVE IInv
  OBVIOUS
<1>1. TypeInv
  BY IdleType, TenancyConstants
     DEF Init, TypeInv, Absent, Unlimited, NewCode, RowType, CodeType
<1>2. WholeInv
  BY TenancyConstants DEF Init, WholeInv, Absent
<1>3. \A q \in Requests : ReqInv(q) /\ SpentInv(q) /\ FreshInv(q)
  BY DEF Init, ReqInv, SpentInv, FreshInv, Idle
<1> QED BY <1>1, <1>2, <1>3 DEF IInv

-----------------------------------------------------------------------------
(* Steps that only move a request                                          *)

LEMMA RequestMoves ==
  ASSUME IInv, UNCHANGED <<clock, tenant, userId, code>>,
         NEW q \in Requests, NEW r \in ReqType, req' = [req EXCEPT ![q] = r],
         ReqInv(q)', SpentInv(q)', FreshInv(q)'
  PROVE  IInv'
<1>1. TypeInv'
  BY DEF IInv, TypeInv
<1>2. WholeInv'
  BY DEF IInv, WholeInv
<1>3. ASSUME NEW p \in Requests, p # q PROVE ReqInv(p)' /\ SpentInv(p)' /\ FreshInv(p)'
  <2>1. req'[p] = req[p]
    BY <1>3 DEF IInv, TypeInv
  <2>2. ReqInv(p) /\ SpentInv(p) /\ FreshInv(p)
    BY DEF IInv
  <2> QED BY <2>1, <2>2 DEF ReqInv, SpentInv, FreshInv
<1> QED BY <1>1, <1>2, <1>3 DEF IInv

\* A request that is over has nothing left to keep.
LEMMA RequestEnds ==
  ASSUME IInv, UNCHANGED <<clock, tenant, userId, code>>, NEW q \in Requests, Ends(q)
  PROVE  IInv'
<1>1. req' = [req EXCEPT ![q] = Idle] /\ req'[q] = Idle
  BY DEF Ends, IInv, TypeInv
<1>2. ReqInv(q)' /\ SpentInv(q)' /\ FreshInv(q)'
  BY <1>1 DEF ReqInv, SpentInv, FreshInv, Idle
<1> QED BY <1>1, <1>2, IdleType, RequestMoves

LEMMA RegisterReadsKeeps ==
  ASSUME IInv, NEW q \in Requests, NEW t \in Tenants, RegisterReads(q, t)
  PROVE  IInv'
<1> DEFINE next == 1 + CHOOSE n \in {userId[u] : u \in Tenants} : \A u \in Tenants : userId[u] <= n
           r == [Idle EXCEPT !.pc = "register", !.tenant = t, !.id = next]
<1>1. next \in Nat \ {0}
  BY NextId
<1>2. req' = [req EXCEPT ![q] = r] /\ UNCHANGED <<clock, tenant, userId, code>>
  BY DEF RegisterReads
<1> HIDE DEF next
<1>3. r \in ReqType /\ r.pc = "register" /\ r.tenant = t /\ r.id = next
  BY <1>1, IdleType DEF ReqType, Idle
<1>4. req'[q] = r
  BY <1>2 DEF IInv, TypeInv
<1>5. ReqInv(q)' /\ SpentInv(q)' /\ FreshInv(q)'
  BY <1>1, <1>3, <1>4 DEF ReqInv, SpentInv, FreshInv
<1>6. clock' \in Nat
  BY <1>2 DEF IInv, TypeInv
<1> QED BY <1>2, <1>3, <1>5, <1>6, RequestMoves

LEMMA LoginReadsKeeps ==
  ASSUME IInv, NEW q \in Requests, NEW t \in Tenants, LoginReads(q, t)
  PROVE  IInv'
<1> DEFINE r == [Idle EXCEPT !.pc = "login", !.tenant = t]
<1>1. req' = [req EXCEPT ![q] = r] /\ UNCHANGED <<clock, tenant, userId, code>>
  BY DEF LoginReads, Enters
<1>2. r \in ReqType /\ r.pc = "login" /\ r.tenant = t
  BY IdleType DEF ReqType, Idle
<1>3. req'[q] = r /\ clock' \in Nat
  BY <1>1 DEF IInv, TypeInv
<1>4. ReqInv(q)' /\ SpentInv(q)' /\ FreshInv(q)'
  BY <1>2, <1>3 DEF ReqInv, SpentInv, FreshInv
<1> QED BY <1>1, <1>2, <1>3, <1>4, RequestMoves

\* Only an owner of an active workspace is let in, who knows what is spent.
LEMMA AskKeeps ==
  ASSUME IInv, NEW q \in Requests, NEW t \in Tenants, NEW c \in Codes, Ask(q, t, c)
  PROVE  IInv'
<1> DEFINE spent == {d \in Codes : code[d].status = "redeemed"}
           r == [Idle EXCEPT !.pc = "redeem", !.tenant = t, !.code = c,
                             !.row = tenant[t], !.spent = spent]
<1>1. req' = [req EXCEPT ![q] = r] /\ UNCHANGED <<clock, tenant, userId, code>>
  BY DEF Ask
<1>2. userId[t] # 0 /\ tenant[t].status = "active"
  BY DEF Ask, MayEnter
<1>3. tenant[t] \in RowType /\ spent \subseteq Codes
  BY DEF IInv, TypeInv
<1>4. /\ r \in ReqType /\ r.pc = "redeem" /\ r.tenant = t /\ r.code = c /\ r.spent = spent
  BY <1>3, IdleType DEF ReqType, Idle
<1>5. req'[q] = r /\ clock' \in Nat
  BY <1>1 DEF IInv, TypeInv
<1>6. ReqInv(q)' /\ SpentInv(q)' /\ FreshInv(q)'
  BY <1>1, <1>2, <1>4, <1>5 DEF ReqInv, SpentInv, FreshInv
<1> QED BY <1>1, <1>4, <1>5, <1>6, RequestMoves

\* The code it is about to spend is unused, hence not one of the spent.
LEMMA RedeemReadsKeeps == ASSUME IInv, NEW q \in Requests, RedeemReads(q) PROVE IInv'
<1> DEFINE until == clock + code[req[q].code].worth
           r == [req[q] EXCEPT !.pc = "redeeming", !.row = Absent, !.until = until]
<1>1. req' = [req EXCEPT ![q] = r] /\ UNCHANGED <<clock, tenant, userId, code>>
  BY DEF RedeemReads, IInv, TypeInv
<1>2. /\ req[q] \in ReqType /\ req[q].pc = "redeem" /\ req[q].code \in Codes
      /\ code[req[q].code].status = "unused" /\ ReqInv(q) /\ SpentInv(q) /\ FreshInv(q)
  BY DEF RedeemReads, IInv, TypeInv, ReqInv
<1>3. until \in Nat
  BY <1>2 DEF IInv, TypeInv, CodeType
<1> HIDE DEF until
<1>4. /\ r \in ReqType /\ r.pc = "redeeming" /\ r.tenant = req[q].tenant
      /\ r.code = req[q].code /\ r.spent = req[q].spent /\ r.overtaken = req[q].overtaken
  BY <1>2, <1>3, IdleType DEF ReqType
<1>5. req'[q] = r /\ clock' \in Nat
  BY <1>1 DEF IInv, TypeInv
<1>6. ReqInv(q)' /\ SpentInv(q)' /\ FreshInv(q)'
  BY <1>1, <1>2, <1>4, <1>5 DEF ReqInv, SpentInv, FreshInv
<1> QED BY <1>1, <1>4, <1>5, <1>6, RequestMoves

\* An extension is computed from the expiry of the row as it is.
LEMMA UpdateReadsKeeps ==
  ASSUME IInv, NEW q \in Requests, NEW t \in Tenants, NEW change \in Changes,
         UpdateReads(q, t, change)
  PROVE  IInv'
<1> DEFINE until == IF change.extend = 0 THEN 0 ELSE Extended(tenant[t], change.extend)
           r == [Idle EXCEPT !.pc = "update", !.tenant = t, !.row.required = tenant[t].required,
                             !.change = change, !.until = until]
<1>1. req' = [req EXCEPT ![q] = r] /\ UNCHANGED <<clock, tenant, userId, code>>
  BY DEF UpdateReads
<1>2. tenant[t] \in RowType /\ change \in ChangeType /\ clock \in Nat
  BY ChangesType DEF IInv, TypeInv
<1>3. /\ until \in Nat
      /\ change.extend # 0 => Adds(until, tenant[t].expires, change.extend, clock)
  BY <1>2 DEF Extended, Adds, Max2, RowType, ChangeType
<1>4. userId[t] # 0
  BY DEF UpdateReads, IInv, WholeInv, Absent
<1> HIDE DEF until
<1>5. [Absent EXCEPT !.required = tenant[t].required] \in RowType
  BY <1>2 DEF RowType, Absent, Unlimited
<1>6. r = [Idle EXCEPT !.pc = "update", !.tenant = t, !.change = change, !.until = until,
                       !.row = [Absent EXCEPT !.required = tenant[t].required]]
  BY DEF Idle
<1>7. /\ r \in ReqType /\ r.pc = "update" /\ r.tenant = t /\ r.change = change /\ r.until = until
  BY <1>2, <1>3, <1>5, <1>6, IdleType DEF ReqType, Idle
<1> HIDE DEF r
<1>8. req'[q] = r /\ clock' \in Nat
  BY <1>1 DEF IInv, TypeInv
<1>9. ReqInv(q)' /\ SpentInv(q)' /\ FreshInv(q)'
  BY <1>1, <1>3, <1>4, <1>7, <1>8 DEF ReqInv, SpentInv, FreshInv
<1> QED BY <1>1, <1>7, <1>8, <1>9, RequestMoves

-----------------------------------------------------------------------------
(* Steps that write rows                                                   *)

\* The others are overtaken if they are about the row that changes.
LEMMA OvertakeMoves ==
  ASSUME IInv, NEW q \in Requests, NEW t \in Tenants, Overtake(q, t)
  PROVE  /\ req' \in [Requests -> ReqType]
         /\ req'[q] = Idle
         /\ \A p \in Requests \ {q} :
              \/ req'[p] = req[p] /\ (req[p].tenant # t \/ req[p].pc = "login")
              \/ /\ req[p].tenant = t
                 /\ req'[p] = [req[p] EXCEPT !.overtaken = TRUE]
                 /\ req'[p].overtaken
<1>1. \A p \in Requests : req[p] \in ReqType /\ [req[p] EXCEPT !.overtaken = TRUE] \in ReqType
  BY DEF IInv, TypeInv, ReqType
<1>2. req' \in [Requests -> ReqType]
  BY <1>1, IdleType DEF Overtake
<1>3. req'[q] = Idle
  BY DEF Overtake
<1>4. ASSUME NEW p \in Requests \ {q}, req[p].tenant = t, req[p].pc # "login"
      PROVE  req'[p] = [req[p] EXCEPT !.overtaken = TRUE] /\ req'[p].overtaken
  BY <1>1, <1>4 DEF Overtake, ReqType
<1>5. ASSUME NEW p \in Requests \ {q}, ~(req[p].tenant = t /\ req[p].pc # "login")
      PROVE  req'[p] = req[p]
  BY <1>5 DEF Overtake
<1> QED BY <1>2, <1>3, <1>4, <1>5

\* A row of an owner is written and its readers are overtaken.
LEMMA RowMoves ==
  ASSUME IInv, NEW q \in Requests, NEW t \in Tenants, userId[t] # 0, Overtake(q, t),
         UNCHANGED <<clock, userId>>,
         NEW row \in RowType, row.status # "absent", tenant' = [tenant EXCEPT ![t] = row],
         code' \in [Codes -> CodeType],
         \A d \in Codes : code[d].status = "redeemed" => code'[d].status = "redeemed"
  PROVE  IInv'
<1>0. /\ req' \in [Requests -> ReqType] /\ req'[q] = Idle
      /\ \A p \in Requests \ {q} :
           \/ req'[p] = req[p] /\ (req[p].tenant # t \/ req[p].pc = "login")
           \/ req'[p] = [req[p] EXCEPT !.overtaken = TRUE] /\ req'[p].overtaken
  BY OvertakeMoves
<1>1. TypeInv'
  BY <1>0 DEF IInv, TypeInv
<1>2. WholeInv'
  BY DEF IInv, TypeInv, WholeInv, Absent
<1>3. ReqInv(q)' /\ SpentInv(q)' /\ FreshInv(q)'
  BY <1>0 DEF ReqInv, SpentInv, FreshInv, Idle
<1>4. ASSUME NEW p \in Requests, p # q PROVE ReqInv(p)' /\ SpentInv(p)' /\ FreshInv(p)'
  <2>1. req[p] \in ReqType /\ req[p].spent \subseteq Codes
        /\ ReqInv(p) /\ SpentInv(p) /\ FreshInv(p)
    BY DEF IInv, TypeInv, ReqType
  <2>2. CASE req'[p] = req[p] /\ (req[p].tenant # t \/ req[p].pc = "login")
    <3>1. req[p].pc \in {"redeem", "redeeming", "update"} =>
            tenant'[req[p].tenant] = tenant[req[p].tenant]
      BY <2>1, <2>2 DEF IInv, TypeInv, ReqInv
    <3> QED BY <2>1, <2>2, <3>1 DEF ReqInv, SpentInv, FreshInv
  <2>3. CASE req'[p] = [req[p] EXCEPT !.overtaken = TRUE] /\ req'[p].overtaken
    <3>1. /\ req'[p].pc = req[p].pc /\ req'[p].tenant = req[p].tenant /\ req'[p].id = req[p].id
          /\ req'[p].code = req[p].code /\ req'[p].spent = req[p].spent
      BY <2>1, <2>3 DEF ReqType
    <3>2. ReqInv(p)'
      BY <2>1, <3>1 DEF ReqInv
    <3>3. SpentInv(p)'
      BY <2>1, <3>1 DEF SpentInv, ReqInv
    <3>4. FreshInv(p)'
      BY <2>3 DEF FreshInv
    <3> QED BY <3>2, <3>3, <3>4
  <2>4. p \in Requests \ {q}
    BY <1>4
  <2> QED BY <1>0, <2>2, <2>3, <2>4
<1> QED BY <1>1, <1>2, <1>3, <1>4 DEF IInv

LEMMA RedeemWritesKeeps == ASSUME IInv, NEW q \in Requests, RedeemWrites(q) PROVE IInv'
<1> DEFINE t == req[q].tenant
           c == req[q].code
           row == [tenant[t] EXCEPT !.activated = TRUE, !.expires = req[q].until,
                                    !.status = "active"]
<1>1. /\ t \in Tenants /\ c \in Codes /\ userId[t] # 0
      /\ req[q] \in ReqType /\ tenant[t] \in RowType /\ code[c] \in CodeType
  BY DEF RedeemWrites, IInv, TypeInv, ReqInv
<1>2. row \in RowType /\ row.status # "absent"
  BY <1>1 DEF RowType, ReqType
<1>3. tenant' = [tenant EXCEPT ![t] = row] /\ Overtake(q, t) /\ UNCHANGED <<clock, userId>>
  BY <1>1 DEF RedeemWrites, IInv, TypeInv
<1>4. code' = [code EXCEPT ![c] = [code[c] EXCEPT !.status = "redeemed", !.by = t]]
  BY <1>1 DEF RedeemWrites, IInv, TypeInv
<1>5. [code[c] EXCEPT !.status = "redeemed", !.by = t] \in CodeType
  BY <1>1 DEF CodeType
<1>6. /\ code' \in [Codes -> CodeType]
      /\ \A d \in Codes : code[d].status = "redeemed" => code'[d].status = "redeemed"
  BY <1>1, <1>4, <1>5 DEF IInv, TypeInv, CodeType
<1> QED BY <1>1, <1>2, <1>3, <1>6, RowMoves

LEMMA UpdateWritesKeeps == ASSUME IInv, NEW q \in Requests, UpdateWrites(q) PROVE IInv'
<1> DEFINE t == req[q].tenant
           old == tenant[t]
           change == req[q].change
           waived == change.required = "off"
           row == [status |-> IF change.extend # 0 /\ req[q].row.required
                                 /\ change.status # "disabled"
                                THEN "active"
                                ELSE IF change.status = None THEN old.status ELSE change.status,
                   required |-> IF change.required = None THEN old.required
                                ELSE change.required = "on",
                   activated |-> old.activated \/ waived \/ change.extend # 0,
                   expires |-> IF change.extend # 0 THEN req[q].until
                               ELSE IF waived THEN Unlimited ELSE old.expires]
<1>1. /\ t \in Tenants /\ userId[t] # 0 /\ req[q] \in ReqType
      /\ old \in RowType /\ old.status # "absent" /\ change \in ChangeType
  BY DEF UpdateWrites, IInv, TypeInv, ReqInv, WholeInv, ReqType
<1>2. tenant' = [tenant EXCEPT ![t] = row] /\ Overtake(q, t) /\ UNCHANGED <<clock, userId, code>>
  BY DEF UpdateWrites
<1>3. row.status \in {"active", "disabled"} /\ row.expires \in Nat
  BY <1>1 DEF RowType, ReqType, ChangeType, Unlimited
<1>4. row.required \in BOOLEAN /\ row.activated \in BOOLEAN
  <2>1. old.required \in BOOLEAN /\ old.activated \in BOOLEAN
    BY <1>1 DEF RowType
  <2> QED BY <2>1
<1>5. row \in RowType
  BY <1>3, <1>4 DEF RowType
<1> HIDE DEF row
<1>6. code' \in [Codes -> CodeType]
      /\ \A d \in Codes : code[d].status = "redeemed" => code'[d].status = "redeemed"
  BY <1>2 DEF IInv, TypeInv
<1> QED BY <1>1, <1>2, <1>3, <1>5, <1>6, RowMoves

\* All three rows, for a name and an id that are nobody's yet, or none.
LEMMA RegisterWritesKeeps == ASSUME IInv, NEW q \in Requests, RegisterWrites(q) PROVE IInv'
<1> DEFINE t == req[q].tenant
           row == [Absent EXCEPT !.status = "active", !.required = TRUE]
           r == [Idle EXCEPT !.pc = "login", !.tenant = t]
<1>1. t \in Tenants /\ req[q].id \in Nat \ {0} /\ UNCHANGED <<clock, code>>
  BY DEF RegisterWrites, IInv, TypeInv, ReqInv, ReqType
<1>2. CASE Taken(q)
  BY <1>1, <1>2, RequestEnds DEF RegisterWrites
<1>3. CASE ~Taken(q)
  <2>1. /\ tenant' = [tenant EXCEPT ![t] = row] /\ userId' = [userId EXCEPT ![t] = req[q].id]
        /\ userId[t] = 0 /\ (\A u \in Tenants : userId[u] # req[q].id)
        /\ req' = [req EXCEPT ![q] = r]
    BY <1>1, <1>3 DEF RegisterWrites, Taken, Enters
  <2>2. row \in RowType /\ row.status = "active"
    BY DEF RowType, Absent, Unlimited
  <2>2a. r \in ReqType /\ r.pc = "login" /\ r.tenant = t
    BY <1>1, IdleType DEF ReqType, Idle
  <2>3. TypeInv'
    BY <1>1, <2>1, <2>2, <2>2a DEF IInv, TypeInv
  <2>4. WholeInv'
    <3>1. \E u \in Tenants : \A v \in Tenants : userId'[v] <= userId'[u]
      <4>1. PICK u \in Tenants : \A v \in Tenants : userId[v] <= userId[u]
        BY DEF IInv, WholeInv
      <4>2. CASE req[q].id >= userId[u]
        <5>1. \A v \in Tenants : userId'[v] <= userId'[t]
          BY <1>1, <2>1, <4>1, <4>2 DEF IInv, TypeInv
        <5> QED BY <1>1, <5>1
      <4>3. CASE req[q].id < userId[u]
        <5>1. u # t
          BY <1>1, <2>1, <4>3
        <5>2. \A v \in Tenants : userId'[v] <= userId'[u]
          BY <1>1, <2>1, <4>1, <4>3, <5>1 DEF IInv, TypeInv
        <5> QED BY <5>2
      <4> QED BY <1>1, <4>2, <4>3 DEF IInv, TypeInv
    <3> QED BY <1>1, <2>1, <2>2, <3>1 DEF IInv, TypeInv, WholeInv
  <2>5. ASSUME NEW p \in Requests PROVE ReqInv(p)' /\ SpentInv(p)' /\ FreshInv(p)'
    <3>1. CASE p = q
      <4>1. req'[p] = r
        BY <2>1, <3>1 DEF IInv, TypeInv
      <4> QED BY <1>1, <2>2a, <4>1 DEF ReqInv, SpentInv, FreshInv
    <3>2. CASE p # q
      <4>1. req'[p] = req[p]
        BY <2>1, <3>2 DEF IInv, TypeInv
      <4>2. ReqInv(p) /\ SpentInv(p) /\ FreshInv(p)
        BY DEF IInv
      <4>3. req[p].pc \in {"redeem", "redeeming", "update"} =>
              /\ tenant'[req[p].tenant] = tenant[req[p].tenant]
              /\ userId'[req[p].tenant] = userId[req[p].tenant]
        BY <2>1, <4>2 DEF ReqInv, IInv, TypeInv
      <4> QED BY <1>1, <4>1, <4>2, <4>3 DEF ReqInv, SpentInv, FreshInv
    <3> QED BY <3>1, <3>2
  <2> QED BY <2>3, <2>4, <2>5 DEF IInv
<1> QED BY <1>2, <1>3

\* A code is made only where there was none.
LEMMA CreateCodeKeeps == ASSUME IInv, NEW c \in Codes, CreateCode(c) PROVE IInv'
<1>1. PICK worth \in Durations :
        code' = [code EXCEPT ![c] = [NewCode EXCEPT !.status = "unused", !.worth = worth]]
  BY DEF CreateCode
<1>2. /\ code[c].status = "none" /\ worth \in Nat
      /\ UNCHANGED <<clock, tenant, userId, req>>
  BY TenancyConstants DEF CreateCode
<1>3. [NewCode EXCEPT !.status = "unused", !.worth = worth] \in CodeType
  BY <1>2 DEF NewCode, CodeType
<1>4. TypeInv'
  BY <1>1, <1>2, <1>3 DEF IInv, TypeInv
<1>5. WholeInv'
  BY <1>2 DEF IInv, WholeInv
<1>6. \A d \in Codes : code[d].status = "redeemed" => code'[d].status = "redeemed"
  BY <1>1, <1>2 DEF IInv, TypeInv
<1>7. ASSUME NEW p \in Requests PROVE ReqInv(p)' /\ SpentInv(p)' /\ FreshInv(p)'
  <2>1. ReqInv(p) /\ SpentInv(p) /\ FreshInv(p) /\ req[p].spent \subseteq Codes
    BY DEF IInv, TypeInv, ReqType
  <2> QED BY <1>2, <1>6, <2>1 DEF ReqInv, SpentInv, FreshInv
<1> QED BY <1>4, <1>5, <1>7 DEF IInv

\* What an extension adds at most can only grow while it waits.
LEMMA OthersKeep ==
  ASSUME IInv, UNCHANGED <<tenant, userId, code, req>>, clock' \in Nat, clock' >= clock
  PROVE  IInv'
<1>1. TypeInv' /\ WholeInv'
  BY DEF IInv, TypeInv, WholeInv
<1>2. ASSUME NEW q \in Requests PROVE ReqInv(q)' /\ SpentInv(q)' /\ FreshInv(q)'
  <2>1. ReqInv(q) /\ SpentInv(q) /\ FreshInv(q)
    BY DEF IInv
  <2>2. ASSUME req[q].tenant \in Tenants, NEW until, NEW minutes \in Nat,
               Adds(until, tenant[req[q].tenant].expires, minutes, clock)
        PROVE  Adds(until, tenant'[req[q].tenant].expires, minutes, clock')
    BY <2>2 DEF Adds, Max2, IInv, TypeInv, RowType
  <2>3. req[q].change.extend \in Nat
    BY DEF IInv, TypeInv, ReqType, ChangeType
  <2> QED BY <2>1, <2>2, <2>3 DEF ReqInv, SpentInv, FreshInv
<1> QED BY <1>1, <1>2 DEF IInv

-----------------------------------------------------------------------------
(* The theorems                                                            *)

LEMMA NextKeeps == ASSUME IInv, [Next]_vars PROVE IInv'
<1> USE DEF IInv, TypeInv
<1>1. ASSUME NEW q \in Requests, SessionBegins(q) \/ RedeemRefused(q) PROVE IInv'
  BY <1>1, RequestEnds DEF SessionBegins, RedeemRefused
<1>2. ASSUME NEW t \in Tenants, SessionEnds(t) PROVE IInv'
  BY <1>2, OthersKeep DEF SessionEnds
<1>3. CASE Tick
  BY <1>3, OthersKeep DEF Tick
<1>4. CASE UNCHANGED vars
  BY <1>4, OthersKeep DEF vars
<1> QED BY <1>1, <1>2, <1>3, <1>4, RegisterReadsKeeps, LoginReadsKeeps, AskKeeps,
           RedeemReadsKeeps, UpdateReadsKeeps, RedeemWritesKeeps, UpdateWritesKeeps,
           RegisterWritesKeeps, CreateCodeKeeps DEF Next

\* The invariant is inductive.
THEOREM Inductive == Spec => []IInv
  BY InitIInv, NextKeeps, PTL DEF Spec

\* However registrations overlap, a tenant is there with its owner or not at
\* all, and no two owners share an id.
THEOREM Registered == Spec => []RegisteredWhole
<1>1. IInv => RegisteredWhole
  BY DEF IInv, WholeInv, RegisteredWhole, Absent, Unlimited
<1> QED BY <1>1, Inductive, PTL

\* Only redemptions that overlap can share a code.
THEOREM SpentCodesRefused == Spec => []SpentIsRefused
<1>1. IInv => SpentIsRefused
  BY DEF IInv, SpentInv, SpentIsRefused
<1> QED BY <1>1, Inductive, PTL

\* A tenant that was disabled comes back only by the administrator, or by a
\* redemption that began before.
THEOREM DisabledStays == Spec => DisableHolds
<1>1. ASSUME IInv, [Next]_vars, NEW t \in Tenants,
             tenant[t].status = "disabled", tenant'[t].status = "active"
      PROVE  \E q \in Requests :
               /\ req[q].tenant = t /\ req'[q] = Idle
               /\ req[q].pc = "update" \/ (req[q].pc = "redeeming" /\ req[q].overtaken)
  <2>1. PICK q \in Requests : RegisterWrites(q) \/ RedeemWrites(q) \/ UpdateWrites(q)
    BY <1>1 DEF Next, vars, SessionBegins, RedeemReads, RedeemRefused, RegisterReads, LoginReads,
                Ask, UpdateReads, SessionEnds, CreateCode, Tick
  <2>2. CASE RegisterWrites(q)
    <3>1. tenant'[t] = tenant[t]
      BY <1>1, <2>2 DEF RegisterWrites, Taken, IInv, TypeInv, WholeInv, Absent
    <3> QED BY <1>1, <3>1
  <2>3. CASE RedeemWrites(q) \/ UpdateWrites(q)
    <3>1. req[q].tenant = t
      BY <1>1, <2>3 DEF RedeemWrites, UpdateWrites, IInv, TypeInv
    <3>2. req'[q] = Idle
      BY <2>3 DEF RedeemWrites, UpdateWrites, Overtake
    <3>3. FreshInv(q)
      BY <1>1 DEF IInv
    <3> QED BY <1>1, <2>3, <3>1, <3>2, <3>3 DEF RedeemWrites, UpdateWrites, FreshInv
  <2> QED BY <2>1, <2>2, <2>3
<1>2. IInv /\ [Next]_vars =>
        [\A t \in Tenants :
           tenant[t].status = "disabled" /\ tenant'[t].status = "active" =>
             \E q \in Requests :
               /\ req[q].tenant = t /\ req'[q] = Idle
               /\ req[q].pc = "update" \/ (req[q].pc = "redeeming" /\ req[q].overtaken)]_vars
  BY <1>1
<1> QED BY <1>2, Inductive, PTL DEF Spec, DisableHolds

\* An extension that nobody overtook moves the end of an access that has one by
\* its minutes, no fewer and no more.
THEOREM ExtensionsAdd == Spec => ExtensionAdds
<1>1. ASSUME IInv, [Next]_vars, NEW q \in Requests, req[q].pc = "update", req'[q] = Idle,
             req[q].change.extend # 0, ~req[q].overtaken,
             tenant[req[q].tenant].expires # Unlimited
      PROVE  tenant'[req[q].tenant].expires \in
               tenant[req[q].tenant].expires + req[q].change.extend ..
               Max2(clock, tenant[req[q].tenant].expires) + req[q].change.extend
  <2> DEFINE t == req[q].tenant
  <2>1. t \in Tenants /\ Adds(req[q].until, tenant[t].expires, req[q].change.extend, clock)
    BY <1>1 DEF IInv, ReqInv, FreshInv
  <2>2. UpdateWrites(q)
    <3>1. PICK p \in Requests :
            \/ p = q /\ UpdateWrites(p)
            \/ p # q /\ (RegisterWrites(p) \/ SessionBegins(p) \/ RedeemRefused(p)
                         \/ RedeemWrites(p) \/ UpdateWrites(p))
      <4>1. req'[q] # req[q]
        BY <1>1 DEF Idle
      <4>2. ASSUME NEW p \in Requests, NEW r, req[p] = Idle, req' = [req EXCEPT ![p] = r]
            PROVE  FALSE
        BY <1>1, <4>1, <4>2 DEF Idle, IInv, TypeInv
      <4>3. ASSUME NEW p \in Requests PROVE ~RedeemReads(p)
        BY <1>1, <4>1 DEF RedeemReads, IInv, TypeInv
      <4>4. ASSUME NEW p \in Requests, NEW u \in Tenants
            PROVE  ~RegisterReads(p, u) /\ ~LoginReads(p, u)
        BY <4>2 DEF RegisterReads, LoginReads, Enters
      <4>5. ASSUME NEW p \in Requests, NEW u \in Tenants
            PROVE  /\ \A c \in Codes : ~Ask(p, u, c)
                   /\ \A change \in Changes : ~UpdateReads(p, u, change)
        BY <4>2 DEF Ask, UpdateReads
      <4>6. \A p \in Requests : RegisterWrites(p) \/ SessionBegins(p) \/ RedeemRefused(p)
                                \/ RedeemWrites(p) => p # q
        BY <1>1 DEF RegisterWrites, SessionBegins, RedeemRefused, RedeemWrites
      <4> QED BY <1>1, <4>1, <4>3, <4>4, <4>5, <4>6 DEF Next, vars, SessionEnds, CreateCode, Tick
    <3>2. ASSUME p # q PROVE req'[q].pc = "update"
      <4>1. CASE RegisterWrites(p) \/ SessionBegins(p) \/ RedeemRefused(p)
        BY <1>1, <3>2, <4>1
           DEF RegisterWrites, SessionBegins, RedeemRefused, Ends, Enters, IInv, TypeInv
      <4>2. CASE RedeemWrites(p) \/ UpdateWrites(p)
        BY <1>1, <3>2, <4>2 DEF RedeemWrites, UpdateWrites, Overtake, IInv, TypeInv, ReqType
      <4> QED BY <3>1, <3>2, <4>1, <4>2
    <3> QED BY <1>1, <3>1, <3>2 DEF Idle
  <2>3. tenant'[t].expires = req[q].until
    BY <1>1, <2>1, <2>2 DEF UpdateWrites, IInv, TypeInv
  <2> QED BY <1>1, <2>1, <2>3 DEF Adds
<1>2. IInv /\ [Next]_vars =>
        [\A q \in Requests :
           LET ends == tenant[req[q].tenant].expires
               minutes == req[q].change.extend IN
           /\ req[q].pc = "update" /\ req'[q] = Idle
           /\ minutes # 0 /\ ~req[q].overtaken /\ ends # Unlimited
           => tenant'[req[q].tenant].expires \in ends + minutes .. Max2(clock, ends) + minutes]_vars
  BY <1>1
<1> QED BY <1>2, Inductive, PTL DEF Spec, ExtensionAdds

-----------------------------------------------------------------------------
(* The ids of the owners, the codes, the sessions and the bounds           *)

\* The ids given so far are 1, 2, ... with none left out.
DenseIds == \A t \in Tenants : \A n \in 1..userId[t] : \E u \in Tenants : userId[u] = n

\* The id a registration read is at most one above one that is given.
NextIds ==
    \A q \in Requests : req[q].pc = "register" =>
        \E u \in Tenants : req[q].id <= userId[u] + 1

\* A redeemed code says who redeemed it, no other code does.
Signed == \A c \in Codes : code[c].status = "redeemed" <=> code[c].by # None

Bounds == clock \in 0..MaxTime /\ session \subseteq Tenants /\ updates \in 0..MaxUpdates

ShapeInv == DenseIds /\ NextIds /\ Signed /\ Bounds

LEMMA InitShape == Init => ShapeInv
<1> SUFFICES ASSUME Init PROVE ShapeInv
  OBVIOUS
<1>1. DenseIds
  BY TenancyConstants DEF Init, DenseIds
<1>2. NextIds /\ Signed /\ Bounds
  BY TenancyConstants DEF Init, NextIds, Signed, Bounds, Idle, NewCode
<1> QED BY <1>1, <1>2 DEF ShapeInv

LEMMA BoundsStep == ASSUME IInv, Bounds, [Next]_vars PROVE Bounds'
<1> USE TenancyConstants DEF Bounds
<1>1. ASSUME NEW q \in Requests, SessionBegins(q) PROVE Bounds'
  BY <1>1 DEF SessionBegins, IInv, ReqInv
<1>2. ASSUME NEW q \in Requests, NEW t \in Tenants, NEW change \in Changes,
             UpdateReads(q, t, change)
      PROVE  Bounds'
  BY <1>2 DEF UpdateReads
<1>3. CASE Tick
  BY <1>3 DEF Tick
<1>4. ASSUME NEW t \in Tenants, SessionEnds(t) PROVE Bounds'
  BY <1>4 DEF SessionEnds
<1>5. ASSUME UNCHANGED <<clock, session, updates>> PROVE Bounds'
  BY <1>5
<1>6. ASSUME NEW q \in Requests,
             \/ RegisterWrites(q) \/ RedeemReads(q) \/ RedeemRefused(q)
             \/ RedeemWrites(q) \/ UpdateWrites(q)
      PROVE  Bounds'
  BY <1>5, <1>6 DEF RegisterWrites, RedeemReads, RedeemRefused, RedeemWrites, UpdateWrites
<1>7. ASSUME NEW q \in Requests, NEW t \in Tenants,
             RegisterReads(q, t) \/ LoginReads(q, t) \/ \E c \in Codes : Ask(q, t, c)
      PROVE  Bounds'
  BY <1>5, <1>7 DEF RegisterReads, LoginReads, Ask
<1>8. ASSUME NEW c \in Codes, CreateCode(c) PROVE Bounds'
  BY <1>5, <1>8 DEF CreateCode
<1> QED BY <1>1, <1>2, <1>3, <1>4, <1>5, <1>6, <1>7, <1>8 DEF Next, vars

\* Codes are written where they are made and where they are redeemed.
LEMMA SignedStep ==
  ASSUME None \notin Tenants, IInv, Signed, [Next]_vars
  PROVE  Signed'
<1>1. ASSUME UNCHANGED code PROVE Signed'
  BY <1>1 DEF Signed
<1>2. ASSUME NEW q \in Requests, RedeemWrites(q) PROVE Signed'
  <2> DEFINE c == req[q].code
             t == req[q].tenant
  <2>1. c \in Codes /\ t \in Tenants /\ code[c] \in CodeType
    BY <1>2 DEF RedeemWrites, IInv, TypeInv, ReqInv
  <2>2. code' = [code EXCEPT ![c] = [code[c] EXCEPT !.status = "redeemed", !.by = t]]
    BY <1>2, <2>1 DEF RedeemWrites, IInv, TypeInv
  <2>3. code'[c].status = "redeemed" /\ code'[c].by = t
    BY <2>1, <2>2 DEF IInv, TypeInv, CodeType
  <2>4. \A d \in Codes : d # c => code'[d] = code[d]
    BY <2>2 DEF IInv, TypeInv
  <2> QED BY <2>1, <2>3, <2>4 DEF Signed
<1>3. ASSUME NEW c \in Codes, CreateCode(c) PROVE Signed'
  <2>1. PICK worth \in Durations :
          code' = [code EXCEPT ![c] = [NewCode EXCEPT !.status = "unused", !.worth = worth]]
    BY <1>3 DEF CreateCode
  <2>2. code'[c].status = "unused" /\ code'[c].by = None
    BY <2>1 DEF IInv, TypeInv, NewCode
  <2>3. \A d \in Codes : d # c => code'[d] = code[d]
    BY <2>1 DEF IInv, TypeInv
  <2> QED BY <2>2, <2>3 DEF Signed
<1> QED BY <1>1, <1>2, <1>3 DEF Next, vars, RegisterWrites, SessionBegins, RedeemReads,
           RedeemRefused, UpdateWrites, RegisterReads, LoginReads, Ask, UpdateReads,
           SessionEnds, Tick

\* Ids are written by a registration only, and only where there was none.
LEMMA IdsStep ==
  ASSUME IInv, [Next]_vars
  PROVE  \/ UNCHANGED userId
         \/ \E q \in Requests :
              /\ RegisterWrites(q) /\ req[q].tenant \in Tenants /\ userId[req[q].tenant] = 0
              /\ userId' = [userId EXCEPT ![req[q].tenant] = req[q].id]
<1>1. ASSUME NEW q \in Requests, RegisterWrites(q)
      PROVE  \/ UNCHANGED userId
             \/ /\ RegisterWrites(q) /\ req[q].tenant \in Tenants /\ userId[req[q].tenant] = 0
                /\ userId' = [userId EXCEPT ![req[q].tenant] = req[q].id]
  BY <1>1 DEF RegisterWrites, Taken, IInv, ReqInv
<1> QED BY <1>1 DEF Next, vars, SessionBegins, RedeemReads, RedeemRefused, RedeemWrites,
           UpdateWrites, RegisterReads, LoginReads, Ask, UpdateReads, SessionEnds,
           CreateCode, Tick

LEMMA IdsGrow ==
  ASSUME IInv, [Next]_vars, NEW u \in Tenants
  PROVE  userId'[u] \in Nat /\ userId'[u] >= userId[u] /\ (userId[u] # 0 => userId'[u] = userId[u])
<1>1. IInv' /\ userId[u] \in Nat /\ userId'[u] \in Nat
  BY NextKeeps DEF IInv, TypeInv
<1> QED BY <1>1, IdsStep DEF IInv, TypeInv

LEMMA DenseStep ==
  ASSUME IInv, DenseIds, NextIds, [Next]_vars
  PROVE  DenseIds'
<1> SUFFICES ASSUME NEW t \in Tenants, NEW n \in 1..userId'[t]
             PROVE  \E u \in Tenants : userId'[u] = n
  BY DEF DenseIds
<1>0. userId[t] \in Nat /\ userId'[t] \in Nat /\ n \in Nat /\ n # 0
  BY IdsGrow DEF IInv, TypeInv
<1>1. ASSUME NEW u \in Tenants, n \in 1..userId[u] PROVE \E v \in Tenants : userId'[v] = n
  <2>1. PICK v \in Tenants : userId[v] = n
    BY <1>1 DEF DenseIds
  <2> QED BY <1>0, <2>1, IdsGrow
<1>2. CASE n <= userId[t]
  BY <1>0, <1>1, <1>2
<1>3. CASE n > userId[t]
  <2>1. PICK q \in Requests :
          /\ RegisterWrites(q) /\ req[q].tenant \in Tenants
          /\ userId' = [userId EXCEPT ![req[q].tenant] = req[q].id]
    BY <1>0, <1>3, IdsStep
  <2>2. req[q].tenant = t
    BY <1>0, <1>3, <2>1 DEF IInv, TypeInv
  <2>3. userId'[t] = req[q].id
    BY <2>1, <2>2 DEF IInv, TypeInv
  <2>4. PICK u \in Tenants : req[q].id <= userId[u] + 1
    BY <2>1 DEF NextIds, RegisterWrites
  <2>5. userId[u] \in Nat
    BY DEF IInv, TypeInv
  <2>6. CASE n = req[q].id
    BY <2>3, <2>6
  <2>7. CASE n # req[q].id
    <3>1. n \in 1..userId[u]
      BY <1>0, <2>3, <2>4, <2>5, <2>7
    <3> QED BY <1>1, <3>1
  <2> QED BY <2>6, <2>7
<1> QED BY <1>0, <1>2, <1>3

\* A request that waits to register keeps what it read, or began just now.
LEMMA ComesToRegister ==
  ASSUME IInv, [Next]_vars, NEW q \in Requests, req'[q].pc = "register"
  PROVE  \/ req[q].pc = "register" /\ req'[q].id = req[q].id
         \/ \E t \in Tenants : RegisterReads(q, t)
<1>1. req[q] \in ReqType
  BY DEF IInv, TypeInv
<1>2. ASSUME NEW p \in Requests, Ends(p)
      PROVE  req[q].pc = "register" /\ req'[q].id = req[q].id
  <2>1. p # q
    BY <1>2 DEF Ends, IInv, TypeInv, Idle
  <2> QED BY <1>2, <2>1 DEF Ends, IInv, TypeInv
<1>2a. ASSUME NEW p \in Requests, NEW t, Enters(p, t)
       PROVE  req[q].pc = "register" /\ req'[q].id = req[q].id
  <2>1. p # q
    BY <1>2a DEF Enters, IInv, TypeInv, Idle
  <2> QED BY <1>2a, <2>1 DEF Enters, IInv, TypeInv
<1>3. ASSUME NEW p \in Requests, NEW t, Overtake(p, t)
      PROVE  req[q].pc = "register" /\ req'[q].id = req[q].id
  <2>1. p # q
    BY <1>3 DEF Overtake, Idle
  <2> QED BY <1>1, <1>3, <2>1 DEF Overtake, ReqType
<1>4. ASSUME NEW p \in Requests, p # q, NEW r, req' = [req EXCEPT ![p] = r]
      PROVE  req[q].pc = "register" /\ req'[q].id = req[q].id
  BY <1>4 DEF IInv, TypeInv
<1>5. ASSUME NEW p \in Requests, RedeemReads(p)
      PROVE  req[q].pc = "register" /\ req'[q].id = req[q].id
  <2> DEFINE r == [req[p] EXCEPT !.pc = "redeeming", !.row = Absent,
                                 !.until = clock + code[req[p].code].worth]
  <2>1. req' = [req EXCEPT ![p] = r]
    BY <1>5 DEF RedeemReads, IInv, TypeInv
  <2>2. p # q
    <3>1. ASSUME p = q PROVE req'[q].pc = "redeeming"
      BY <1>1, <2>1, <3>1 DEF ReqType, IInv, TypeInv
    <3> QED BY <3>1
  <2> HIDE DEF r
  <2> QED BY <1>4, <2>1, <2>2
<1>6. ASSUME NEW p \in Requests, NEW t \in Tenants, LoginReads(p, t) \/ \E c \in Codes : Ask(p, t, c)
      PROVE  req[q].pc = "register" /\ req'[q].id = req[q].id
  <2>1. p # q
    BY <1>6 DEF LoginReads, Enters, Ask, IInv, TypeInv, Idle
  <2> QED BY <1>4, <1>6, <2>1 DEF LoginReads, Enters, Ask
<1>7. ASSUME NEW p \in Requests, NEW t \in Tenants, NEW change \in Changes,
             UpdateReads(p, t, change)
      PROVE  req[q].pc = "register" /\ req'[q].id = req[q].id
  <2>1. p # q
    BY <1>7 DEF UpdateReads, IInv, TypeInv, Idle
  <2> QED BY <1>4, <1>7, <2>1 DEF UpdateReads
<1>8. ASSUME NEW p \in Requests, NEW t \in Tenants, RegisterReads(p, t), p # q
      PROVE  req[q].pc = "register" /\ req'[q].id = req[q].id
  BY <1>4, <1>8 DEF RegisterReads
<1>9. ASSUME UNCHANGED req PROVE req[q].pc = "register" /\ req'[q].id = req[q].id
  BY <1>9
<1>10. ASSUME NEW p \in Requests,
              \/ RegisterWrites(p) \/ SessionBegins(p) \/ RedeemRefused(p)
              \/ RedeemWrites(p) \/ UpdateWrites(p)
       PROVE  req[q].pc = "register" /\ req'[q].id = req[q].id
  BY <1>2, <1>2a, <1>3, <1>10
     DEF RegisterWrites, SessionBegins, RedeemRefused, RedeemWrites, UpdateWrites
<1>11. UNCHANGED req \/ ~((\E t \in Tenants : SessionEnds(t)) \/ (\E c \in Codes : CreateCode(c))
                          \/ Tick \/ UNCHANGED vars)
  BY DEF SessionEnds, CreateCode, Tick, vars
<1> QED BY <1>5, <1>6, <1>7, <1>8, <1>9, <1>10, <1>11 DEF Next

LEMMA NextIdsStep ==
  ASSUME IInv, NextIds, [Next]_vars
  PROVE  NextIds'
<1> SUFFICES ASSUME NEW q \in Requests, req'[q].pc = "register"
             PROVE  \E u \in Tenants : req'[q].id <= userId'[u] + 1
  BY DEF NextIds
<1>1. CASE req[q].pc = "register" /\ req'[q].id = req[q].id
  <2>1. PICK u \in Tenants : req[q].id <= userId[u] + 1
    BY <1>1 DEF NextIds
  <2>2. /\ userId[u] \in Nat /\ userId'[u] \in Nat /\ userId'[u] >= userId[u]
        /\ req[q].id \in Nat
    BY IdsGrow DEF IInv, TypeInv, ReqType
  <2> QED BY <1>1, <2>1, <2>2
<1>2. ASSUME NEW t \in Tenants, RegisterReads(q, t)
      PROVE  \E u \in Tenants : req'[q].id <= userId'[u] + 1
  <2> DEFINE Ids == {userId[u] : u \in Tenants}
             top == CHOOSE n \in Ids : \A u \in Tenants : userId[u] <= n
  <2>1. \E n \in Ids : \A u \in Tenants : userId[u] <= n
    BY DEF IInv, WholeInv
  <2>2. top \in Ids
    BY <2>1
  <2> HIDE DEF top
  <2>3. req'[q].id = 1 + top /\ UNCHANGED userId
    BY <1>2 DEF RegisterReads, IInv, TypeInv, Idle, top
  <2>4. PICK u \in Tenants : userId[u] = top
    BY <2>2
  <2>5. top \in Nat
    BY <2>4 DEF IInv, TypeInv
  <2> QED BY <2>3, <2>4, <2>5
<1> QED BY <1>1, <1>2, ComesToRegister

\* Ids without a gap, one each, are no more than there are tenants.
LEMMA IdsAreFew ==
  ASSUME IsFiniteSet(Tenants), IInv, DenseIds, NEW t \in Tenants
  PROVE  userId[t] <= Cardinality(Tenants)
<1> DEFINE ids == 1..userId[t]
           owner == [n \in ids |-> CHOOSE u \in Tenants : userId[u] = n]
<1>1. userId[t] \in Nat
  BY DEF IInv, TypeInv
<1>2. \A n \in ids : owner[n] \in Tenants /\ userId[owner[n]] = n
  BY DEF DenseIds
<1>3. owner \in [ids -> Tenants]
  BY <1>2
<1>4. \A m, n \in ids : owner[m] = owner[n] => m = n
  BY <1>2
<1> HIDE DEF owner
<1>5. owner \in Injection(ids, Tenants)
  BY <1>3, <1>4 DEF Injection, IsInjective
<1>6. Cardinality(ids) <= Cardinality(Tenants)
  BY <1>5, FS_Injection
<1>7. Cardinality(ids) = IF 1 > userId[t] THEN 0 ELSE userId[t] - 1 + 1
  BY <1>1, FS_Interval
<1> QED BY <1>1, <1>6, <1>7

\* The rows keep their shape, the owners' ids stay within the number of
\* tenants because none is skipped when registrations overlap, and a code is
\* redeemed exactly when it says by whom.
THEOREM TypeCorrect ==
  IsFiniteSet(Tenants) /\ None \notin Tenants => (Spec => []TypeOK)
<1>1. SUFFICES ASSUME IsFiniteSet(Tenants), None \notin Tenants PROVE Spec => []TypeOK
  OBVIOUS
<1>2. IInv /\ ShapeInv /\ [Next]_vars => ShapeInv'
  BY <1>1, BoundsStep, SignedStep, DenseStep, NextIdsStep DEF ShapeInv
<1>3. IInv /\ ShapeInv => TypeOK
  <2> SUFFICES ASSUME IInv, ShapeInv PROVE TypeOK
    OBVIOUS
  <2>1. \A t \in Tenants : userId[t] \in 0..Cardinality(Tenants)
    BY <1>1, IdsAreFew, FS_CardinalityType DEF IInv, TypeInv, ShapeInv
  <2>2. \A t \in Tenants : tenant[t].status \in {"absent", "active", "disabled"}
                           /\ tenant[t].expires \in Nat
    BY DEF IInv, TypeInv, RowType
  <2>3. \A c \in Codes : code[c].status \in {"none", "unused", "redeemed"}
    BY DEF IInv, TypeInv, CodeType
  <2>4. \A q \in Requests :
          req[q].pc \in {"idle", "login", "redeem", "redeeming", "update", "register"}
    BY DEF IInv, TypeInv, ReqType
  <2>5. Bounds /\ Signed
    BY DEF ShapeInv
  <2> QED BY <2>1, <2>2, <2>3, <2>4, <2>5 DEF TypeOK, Bounds, Signed
<1> QED BY <1>2, <1>3, InitShape, Inductive, PTL DEF Spec
=============================================================================
