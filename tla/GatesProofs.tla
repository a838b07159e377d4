---------------------------- MODULE GatesProofs ----------------------------
(***************************************************************************)
(* Proofs about Gates, for any accounts, addresses, clients, passwords and *)
(* limits.  The two gates share the clock and the restarts only, so the    *)
(* invariant falls into three parts that are proved one by one: what       *)
(* native clients are told, the rate limiter, and the budget.              *)
(***************************************************************************)
EXTENDS Gates, FiniteSetTheorems, TLAPS

-----------------------------------------------------------------------------
(* The parts *)

ThrottleTypeOK ==
    /\ DOMAIN fails \subseteq Addrs
    /\ \A a \in DOMAIN fails : fails[a] \in FailRec

ClientsInv ==
    /\ AppPasswordsTypeOK
    /\ ThrottleTypeOK
    /\ FileInv
    /\ AttemptInv
    /\ ThrottleInv
    /\ VerdictsAreHonest

RateTypeOK ==
    /\ DOMAIN hits \subseteq Users
    /\ \A u \in DOMAIN hits :
           /\ DOMAIN hits[u] \subseteq Nat \ {0}
           /\ \A n \in DOMAIN hits[u] : hits[u][n] \in Nat
           /\ Cardinality(DOMAIN hits[u]) \in 1 .. RateMax
    /\ newest \in Nat
    /\ admitted \in [Users -> Seq(Admission)]

LimiterInv == RateTypeOK /\ RateInv

CacheInv ==
    /\ DOMAIN cache \subseteq Inputs
    /\ \A i \in DOMAIN cache : cache[i] \in Nat
    /\ \A K \in {Queries, PlaceIds} : Cardinality(K \cap DOMAIN cache) <= CacheCap
    /\ IsFiniteSet(DOMAIN cache)

SpendingInv ==
    /\ clock \in Nat \ {0}
    /\ clock <= MaxTime
    /\ day \in Days
    /\ spent \in Nat
    /\ lookup \in [Searches -> Lookup]
    /\ called \in [Days -> Nat]
    /\ lives \in [Days -> Nat]
    /\ BudgetInv

LEMMA Parts ==
    GatesInv <=> /\ ClientsInv /\ LimiterInv /\ CacheInv /\ SpendingInv
                 /\ requests \in 0 .. MaxRequests /\ faults \in 0 .. MaxFaults
  BY DEF GatesInv, ClientsInv, LimiterInv, CacheInv, SpendingInv, ThrottleTypeOK, RateTypeOK,
         TypeOK, LimitsTypeOK, AppPasswordsTypeOK, PlaceSearchTypeOK

LEMMA PartsAfter ==
    ASSUME ClientsInv', LimiterInv', CacheInv', SpendingInv',
           requests' \in 0 .. MaxRequests, faults' \in 0 .. MaxFaults
    PROVE  GatesInv'
  BY DEF GatesInv, ClientsInv, LimiterInv, CacheInv, SpendingInv, ThrottleTypeOK, RateTypeOK,
         TypeOK, LimitsTypeOK, AppPasswordsTypeOK, PlaceSearchTypeOK

-----------------------------------------------------------------------------
(* Native clients *)

LEMMA AttemptFields ==
    ASSUME NEW x \in Attempt
    PROVE  /\ x.pc \in {"idle", "verify", "settle", "accepted", "refused", "later"}
           /\ x.pc \in {"verify", "settle", "accepted", "refused"} => x.ev \in Evidence
           /\ x.pc = "settle" => x.match \in BOOLEAN
  BY DEF Attempt

LEMMA AttemptForms ==
    ASSUME NEW e \in Evidence, NEW b \in BOOLEAN
    PROVE  /\ [pc |-> "idle"] \in Attempt
           /\ [pc |-> "verify", ev |-> e] \in Attempt
           /\ [pc |-> "settle", match |-> b, ev |-> e] \in Attempt
           /\ [pc |-> "accepted", ev |-> e] \in Attempt
           /\ [pc |-> "refused", ev |-> e] \in Attempt
  BY DEF Attempt

LEMMA LaterForm == ASSUME NEW b \in BOOLEAN PROVE [pc |-> "later", earned |-> b] \in Attempt
  BY DEF Attempt

\* Witness adds to the evidence of requests under way and changes nothing else.
LEMMA WitnessAdds ==
    ASSUME AppPasswordsTypeOK, NEW l \in [Tokens -> {"unborn", "valid", "revoked"}],
           NEW acc \in BOOLEAN, NEW c \in Clients
    PROVE  LET w == Witness(attempt, l, acc)[c]
               r == attempt[c]
           IN  /\ w \in Attempt
               /\ w.pc = r.pc
               /\ r.pc \notin {"verify", "settle"} => w = r
               /\ r.pc \in {"verify", "settle"} =>
                      /\ w.ev.tok = r.ev.tok /\ w.ev.io = r.ev.io /\ w.ev.addr = r.ev.addr
                      /\ w.ev.valid = r.ev.valid \cup {IsValid(l, r.ev.tok)}
                      /\ w.ev.exists = r.ev.exists \cup {acc}
               /\ r.pc = "settle" => w.match = r.match
  <1> DEFINE r == attempt[c]
             w == Witness(attempt, l, acc)[c]
  <1>1. r \in Attempt
    BY DEF AppPasswordsTypeOK
  <1>2. CASE r.pc \notin {"verify", "settle"}
    BY <1>1, <1>2 DEF Witness
  <1>3. CASE r.pc \in {"verify", "settle"}
    <2>1. IsValid(l, r.ev.tok) \in BOOLEAN
      BY DEF IsValid
    <2>2. r.ev \in Evidence
      BY <1>1, <1>3, AttemptFields
    <2> DEFINE e == [r.ev EXCEPT !.valid  = @ \cup {IsValid(l, r.ev.tok)},
                                 !.exists = @ \cup {acc}]
    <2>3. w = [r EXCEPT !.ev = e]
      BY <1>1, <1>3, <2>2 DEF Witness, Attempt, Evidence
    <2>4. e \in Evidence
      BY <2>1, <2>2 DEF Evidence
    <2>5. /\ e.tok = r.ev.tok /\ e.io = r.ev.io /\ e.addr = r.ev.addr
          /\ e.valid = r.ev.valid \cup {IsValid(l, r.ev.tok)}
          /\ e.exists = r.ev.exists \cup {acc}
      BY <2>2 DEF Evidence
    <2> HIDE DEF e
    <2>6. w \in Attempt /\ w.pc = r.pc /\ w.ev = e /\ (r.pc = "settle" => w.match = r.match)
      BY <1>1, <1>3, <2>3, <2>4 DEF Attempt
    <2> QED
      BY <1>3, <2>5, <2>6
  <1> QED
    BY <1>2, <1>3

\* Growing evidence keeps the outcomes, whatever the change it witnesses.
LEMMA WitnessInv ==
    ASSUME ClientsInv, attempt' = Witness(attempt, life', account'),
           life' \in [Tokens -> {"unborn", "valid", "revoked"}], account' \in BOOLEAN
    PROVE  attempt' \in [Clients -> Attempt] /\ AttemptInv' /\ VerdictsAreHonest'
  <1>1. attempt' \in [Clients -> Attempt]
    <2>1. \A c \in Clients : attempt'[c] \in Attempt
      BY WitnessAdds DEF ClientsInv
    <2> QED
      BY <2>1 DEF Witness
  <1>2. ASSUME NEW c \in Clients
        PROVE  /\ attempt'[c].pc = attempt[c].pc
               /\ attempt[c].pc \notin {"verify", "settle"} => attempt'[c] = attempt[c]
               /\ attempt[c].pc \in {"verify", "settle"} =>
                      /\ attempt'[c].ev.tok = attempt[c].ev.tok
                      /\ attempt'[c].ev.io = attempt[c].ev.io
                      /\ attempt'[c].ev.valid =
                             attempt[c].ev.valid \cup {IsValid(life', attempt[c].ev.tok)}
                      /\ attempt'[c].ev.exists = attempt[c].ev.exists \cup {account'}
               /\ attempt[c].pc = "settle" => attempt'[c].match = attempt[c].match
    BY WitnessAdds DEF ClientsInv
  <1>3. AttemptInv'
    BY <1>2 DEF ClientsInv, AttemptInv
  <1>4. VerdictsAreHonest'
    <2>1. VerdictsAreHonest
      BY DEF ClientsInv
    <2>2. \A c \in Clients : attempt[c].pc \in {"accepted", "refused", "later"} =>
                                 attempt'[c] = attempt[c]
      BY <1>2
    <2>3. \A c \in Clients : attempt'[c].pc = attempt[c].pc
      BY <1>2
    <2> QED
      BY <2>1, <2>2, <2>3 DEF VerdictsAreHonest
  <1> QED
    BY <1>1, <1>3, <1>4

\* One request's step keeps what holds of the others.
LEMMA OneAttempt ==
    ASSUME ClientsInv, UNCHANGED <<life, account>>, NEW c \in Clients, NEW x \in Attempt,
           attempt' = [attempt EXCEPT ![c] = x],
           x.pc \in {"verify", "settle"} =>
               IsValid(life, x.ev.tok) \in x.ev.valid /\ account \in x.ev.exists,
           x.pc = "settle" => x.match \in x.ev.valid \/ (~x.match /\ x.ev.io),
           x.pc = "accepted" => TRUE \in x.ev.valid /\ TRUE \in x.ev.exists,
           x.pc = "refused" => FALSE \in x.ev.valid \/ FALSE \in x.ev.exists \/ x.ev.io,
           x.pc = "later" => x.earned
    PROVE  attempt' \in [Clients -> Attempt] /\ AttemptInv' /\ VerdictsAreHonest'
  <1>1. \A d \in Clients : attempt'[d] = IF d = c THEN x ELSE attempt[d]
    BY DEF ClientsInv, AppPasswordsTypeOK
  <1>2. attempt' \in [Clients -> Attempt]
    BY DEF ClientsInv, AppPasswordsTypeOK
  <1>3. AttemptInv'
    BY <1>1 DEF ClientsInv, AttemptInv, IsValid
  <1>4. VerdictsAreHonest'
    BY <1>1 DEF ClientsInv, VerdictsAreHonest
  <1> QED
    BY <1>2, <1>3, <1>4

LEMMA ThrottleFrame ==
    ASSUME ClientsInv, UNCHANGED <<fails, streak>> PROVE ThrottleTypeOK' /\ ThrottleInv'
  BY DEF ClientsInv, ThrottleTypeOK, ThrottleInv

LEMMA FileFrame ==
    ASSUME ClientsInv, UNCHANGED <<file, change, life>> PROVE FileInv'
  BY DEF ClientsInv, FileInv

LEMMA AttemptFrame ==
    ASSUME ClientsInv, UNCHANGED <<attempt, life, account>> PROVE AttemptInv' /\ VerdictsAreHonest'
  BY DEF ClientsInv, AttemptInv, VerdictsAreHonest, IsValid

LEMMA ClientsFrame ==
    ASSUME ClientsInv, UNCHANGED <<fails, appPasswords>> PROVE ClientsInv'
  <1>1. AppPasswordsTypeOK'
    BY DEF ClientsInv, AppPasswordsTypeOK, appPasswords
  <1> QED
    BY <1>1, ThrottleFrame, FileFrame, AttemptFrame DEF ClientsInv, appPasswords

LEMMA LockInv ==
    ASSUME ClientsInv, NEW op \in {"create", "delete"}, NEW t \in Tokens, Lock(op, t)
    PROVE  ClientsInv'
  <1>1. change' = [op |-> op, tok |-> t, list |-> file]
    BY DEF Lock, Loads, Read, Unread
  <1>2. AppPasswordsTypeOK'
    BY <1>1 DEF Lock, ClientsInv, AppPasswordsTypeOK
  <1>3. FileInv'
    BY <1>1 DEF Lock, ClientsInv, FileInv
  <1> QED
    BY <1>2, <1>3, ThrottleFrame, AttemptFrame DEF Lock, ClientsInv, limits

LEMMA SaveInv == ASSUME ClientsInv, Save PROVE ClientsInv'
  <1>1. /\ change.op \in {"create", "delete"} /\ change.tok \in Tokens
        /\ change.list \in SUBSET Tokens
    BY DEF Save, ClientsInv, AppPasswordsTypeOK, Free
  <1>2. life' \in [Tokens -> {"unborn", "valid", "revoked"}]
    BY DEF Save, ClientsInv, AppPasswordsTypeOK
  <1>3. account' = account /\ account \in BOOLEAN
    BY DEF Save, ClientsInv, AppPasswordsTypeOK
  <1>4. attempt' \in [Clients -> Attempt] /\ AttemptInv' /\ VerdictsAreHonest'
    BY <1>2, <1>3, WitnessInv DEF Save
  <1>5. AppPasswordsTypeOK'
    BY <1>1, <1>2, <1>4 DEF Save, ClientsInv, AppPasswordsTypeOK
  <1>6. file' = {t \in Tokens : life'[t] = "valid"}
    BY <1>1 DEF Save, ClientsInv, FileInv, AppPasswordsTypeOK
  <1>7. FileInv'
    BY <1>6 DEF Save, FileInv
  <1> QED
    BY <1>4, <1>5, <1>7, ThrottleFrame DEF Save, ClientsInv, limits

LEMMA SaveFailsInv == ASSUME ClientsInv, SaveFails PROVE ClientsInv'
  <1>1. AppPasswordsTypeOK'
    BY DEF SaveFails, ClientsInv, AppPasswordsTypeOK
  <1>2. FileInv'
    BY DEF SaveFails, ClientsInv, FileInv
  <1> QED
    BY <1>1, <1>2, ThrottleFrame, AttemptFrame DEF SaveFails, ClientsInv, limits

LEMMA SetAccountInv == ASSUME ClientsInv, SetAccount PROVE ClientsInv'
  <1>1. account' \in BOOLEAN /\ life' = life
    BY DEF SetAccount
  <1>2. attempt' \in [Clients -> Attempt] /\ AttemptInv' /\ VerdictsAreHonest'
    BY <1>1, WitnessInv DEF SetAccount, ClientsInv, AppPasswordsTypeOK
  <1>3. AppPasswordsTypeOK'
    BY <1>1, <1>2 DEF SetAccount, ClientsInv, AppPasswordsTypeOK
  <1> QED
    BY <1>2, <1>3, ThrottleFrame, FileFrame DEF SetAccount, ClientsInv, limits

\* Nobody is sent away whose address has not had the rejections for it.
LEMMA ChallengeInv ==
    ASSUME ClientsInv, clock \in Nat,
           NEW c \in Clients, NEW a \in Addrs, NEW t \in Tokens \cup {Bogus}, Challenge(c, a, t)
    PROVE  ClientsInv'
  <1>1. attempt' \in [Clients -> Attempt] /\ AttemptInv' /\ VerdictsAreHonest'
    <2>1. CASE Blocked(a)
      <3> DEFINE x == [pc |-> "later", earned |-> streak[a] >= FreeFails]
      <3>1. /\ a \in DOMAIN fails /\ fails[a].until \in Nat /\ fails[a].count \in Nat
            /\ streak[a] \in Nat /\ clock < fails[a].until /\ FreeFails \in Nat
        BY <2>1, LimitsAssumption
        DEF Blocked, ClientsInv, ThrottleTypeOK, FailRec, AppPasswordsTypeOK
      <3>2. streak[a] >= FreeFails
        BY <3>1 DEF ClientsInv, ThrottleInv
      <3>3. x \in Attempt /\ x.pc = "later" /\ x.earned
        BY <3>2, LaterForm
      <3>4. attempt' = [attempt EXCEPT ![c] = x]
        BY <2>1 DEF Challenge
      <3> HIDE DEF x
      <3> QED
        BY <3>3, <3>4, OneAttempt DEF Challenge
    <2>2. CASE ~Blocked(a)
      <3> DEFINE e == [addr |-> a, tok |-> t, io |-> FALSE, exists |-> {account},
                       valid |-> {IsValid(life, t)}]
                 x == [pc |-> "verify", ev |-> e]
      <3>1. e \in Evidence
        BY DEF Evidence, IsValid, ClientsInv, AppPasswordsTypeOK
      <3>2. x \in Attempt
        BY <3>1, AttemptForms
      <3>3. x.pc = "verify" /\ IsValid(life, x.ev.tok) \in x.ev.valid /\ account \in x.ev.exists
        OBVIOUS
      <3>4. attempt' = [attempt EXCEPT ![c] = x]
        BY <2>2 DEF Challenge
      <3> HIDE DEF x
      <3> QED
        BY <3>2, <3>3, <3>4, OneAttempt DEF Challenge
    <2> QED
      BY <2>1, <2>2
  <1>2. AppPasswordsTypeOK'
    BY <1>1 DEF Challenge, ClientsInv, AppPasswordsTypeOK
  <1> QED
    BY <1>1, <1>2, ThrottleFrame, FileFrame DEF Challenge, ClientsInv, limits

LEMMA VerifyInv ==
    ASSUME ClientsInv, NEW c \in Clients, Verify(c) PROVE ClientsInv'
  <1>1. PICK l \in Loads :
            attempt' = [attempt EXCEPT ![c] =
                [pc |-> "settle", match |-> l.ok /\ @.ev.tok \in l.list,
                 ev |-> [@.ev EXCEPT !.io = ~l.ok]]]
    BY DEF Verify
  <1> DEFINE e == [attempt[c].ev EXCEPT !.io = ~l.ok]
             m == l.ok /\ attempt[c].ev.tok \in l.list
             x == [pc |-> "settle", match |-> m, ev |-> e]
  <1>2. /\ attempt[c].pc = "verify" /\ attempt[c].ev \in Evidence
        /\ IsValid(life, attempt[c].ev.tok) \in attempt[c].ev.valid
        /\ account \in attempt[c].ev.exists
    BY AttemptFields DEF Verify, ClientsInv, AppPasswordsTypeOK, AttemptInv
  <1>3. l.ok \in BOOLEAN
    <2>1. Read(file).ok = TRUE /\ Unread.ok = FALSE
      BY DEF Read, Unread
    <2> QED
      BY <2>1 DEF Loads
  <1>4. e \in Evidence /\ e.io = ~l.ok /\ e.tok = attempt[c].ev.tok
        /\ e.valid = attempt[c].ev.valid /\ e.exists = attempt[c].ev.exists
    BY <1>2, <1>3 DEF Evidence
  <1>5. m \in BOOLEAN
    BY <1>3
  <1>6. m = IsValid(life, attempt[c].ev.tok) \/ (~m /\ ~l.ok)
    <2>1. CASE l.ok
      <3>1. l.list = file
        BY <1>1, <2>1 DEF Loads, Read, Unread
      <3> QED
        BY <2>1, <3>1 DEF IsValid, ClientsInv, FileInv
    <2> QED
      BY <1>3, <2>1
  <1>7. attempt' = [attempt EXCEPT ![c] = x]
    BY <1>1
  <1> HIDE DEF e, m
  <1>8. /\ x \in Attempt /\ x.pc = "settle"
        /\ IsValid(life, x.ev.tok) \in x.ev.valid /\ account \in x.ev.exists
        /\ x.match \in x.ev.valid \/ (~x.match /\ x.ev.io)
    BY <1>2, <1>4, <1>5, <1>6, AttemptForms
  <1> HIDE DEF x
  <1>9. attempt' \in [Clients -> Attempt] /\ AttemptInv' /\ VerdictsAreHonest'
    BY <1>7, <1>8, OneAttempt DEF Verify
  <1>10. AppPasswordsTypeOK'
    BY <1>9 DEF Verify, ClientsInv, AppPasswordsTypeOK
  <1> QED
    BY <1>9, <1>10, ThrottleFrame, FileFrame DEF Verify, ClientsInv, limits

-----------------------------------------------------------------------------
(* The throttle *)

\* What fail leaves: the address, one rejection on, and of the rest what was there.
LEMMA FailedForm ==
    ASSUME ThrottleTypeOK, clock \in Nat, NEW a \in Addrs
    PROVE  LET f == Failed(a)
           IN  /\ a \in DOMAIN f /\ DOMAIN f \subseteq DOMAIN fails \cup {a}
               /\ \A b \in DOMAIN f \ {a} : b \in DOMAIN fails /\ f[b] = fails[b]
               /\ f[a] \in FailRec
               /\ f[a].count = 1 \/ (a \in DOMAIN fails /\ f[a].count = fails[a].count + 1)
               /\ f[a].until > 0 => f[a].count >= FreeFails
  <1> DEFINE kept == IF Cardinality(DOMAIN fails) > FailsLimit
                     THEN RestrictValues(fails, LAMBDA r : clock <= r.until)
                     ELSE fails
             n    == IF a \in DOMAIN kept THEN kept[a].count + 1 ELSE 1
             r    == [count |-> n, until |-> IF n >= FreeFails THEN clock + Backoff(n) ELSE 0]
  <1>1. DOMAIN kept \subseteq DOMAIN fails /\ \A b \in DOMAIN kept : kept[b] = fails[b]
    BY DEF RestrictValues, Restrict
  <1>2. Failed(a) = [b \in {a} \cup DOMAIN kept |-> IF b = a THEN r ELSE kept[b]]
    <2>1. Failed(a) = Put(kept, a, r)
      BY DEF Failed
    <2> HIDE DEF kept, r
    <2> QED
      BY <2>1 DEF Put
  <1> HIDE DEF kept
  <1>3. n \in Nat \ {0} /\ (n = 1 \/ (a \in DOMAIN fails /\ n = fails[a].count + 1))
    BY <1>1 DEF ThrottleTypeOK, FailRec
  <1> HIDE DEF n
  <1>4. n >= FreeFails => Backoff(n) \in Nat
    BY <1>3, LimitsAssumption DEF Backoff
  <1>5. r \in FailRec /\ r.count = n /\ (r.until > 0 => r.count >= FreeFails)
    BY <1>3, <1>4, LimitsAssumption DEF FailRec
  <1> HIDE DEF r
  <1> QED
    BY <1>1, <1>2, <1>3, <1>5

\* An accepted credential clears its address.
LEMMA PassedInv ==
    ASSUME ClientsInv, NEW a \in Addrs, fails' = Passed(a), streak' = [streak EXCEPT ![a] = 0]
    PROVE  ThrottleTypeOK' /\ ThrottleInv' /\ streak' \in [Addrs -> Nat]
  <1>1. DOMAIN fails' = DOMAIN fails \ {a} /\ \A b \in DOMAIN fails' : fails'[b] = fails[b]
    BY DEF Passed, Restrict
  <1>2. streak \in [Addrs -> Nat] /\ DOMAIN fails \subseteq Addrs
    BY DEF ClientsInv, ThrottleTypeOK, AppPasswordsTypeOK
  <1>3. \A b \in DOMAIN fails' : b \in Addrs /\ streak'[b] = streak[b]
    BY <1>1, <1>2
  <1>4. ThrottleTypeOK'
    BY <1>1 DEF ClientsInv, ThrottleTypeOK
  <1>5. ThrottleInv'
    BY <1>1, <1>3 DEF ClientsInv, ThrottleInv
  <1> QED
    BY <1>2, <1>4, <1>5

LEMMA RejectedInv ==
    ASSUME ClientsInv, clock \in Nat, NEW a \in Addrs, fails' = Failed(a),
           streak' = [streak EXCEPT ![a] = @ + 1]
    PROVE  ThrottleTypeOK' /\ ThrottleInv' /\ streak' \in [Addrs -> Nat]
  <1>1. streak \in [Addrs -> Nat] /\ DOMAIN fails \subseteq Addrs
    BY DEF ClientsInv, ThrottleTypeOK, AppPasswordsTypeOK
  <1>2. /\ a \in DOMAIN fails' /\ DOMAIN fails' \subseteq DOMAIN fails \cup {a}
        /\ \A b \in DOMAIN fails' \ {a} : b \in DOMAIN fails /\ fails'[b] = fails[b]
        /\ fails'[a] \in FailRec
        /\ fails'[a].count = 1 \/ (a \in DOMAIN fails /\ fails'[a].count = fails[a].count + 1)
        /\ fails'[a].until > 0 => fails'[a].count >= FreeFails
    BY FailedForm DEF ClientsInv
  <1>3. ThrottleTypeOK'
    BY <1>2 DEF ClientsInv, ThrottleTypeOK
  <1>4. fails'[a].count <= streak'[a]
    <2>1. a \in DOMAIN fails => fails[a].count <= streak[a] /\ fails[a].count \in Nat
      BY DEF ClientsInv, ThrottleInv, ThrottleTypeOK, FailRec
    <2> QED
      BY <1>1, <1>2, <2>1
  <1>5. \A b \in DOMAIN fails' \ {a} : b \in Addrs /\ streak'[b] = streak[b]
    BY <1>1, <1>2
  <1>6. ThrottleInv'
    BY <1>2, <1>4, <1>5 DEF ClientsInv, ThrottleInv
  <1> QED
    BY <1>1, <1>3, <1>6

LEMMA SettleInv ==
    ASSUME ClientsInv, clock \in Nat, NEW c \in Clients, Settle(c) PROVE ClientsInv'
  <1> DEFINE a == attempt[c].ev.addr
             e == attempt[c].ev
  <1>1. /\ attempt[c].pc = "settle" /\ e \in Evidence /\ a \in Addrs
        /\ attempt[c].match \in BOOLEAN /\ account \in BOOLEAN /\ account \in e.exists
        /\ attempt[c].match \in e.valid \/ (~attempt[c].match /\ e.io)
    BY AttemptFields DEF Settle, ClientsInv, AppPasswordsTypeOK, AttemptInv, Evidence
  <1>2. UNCHANGED <<life, account, file, change>>
    BY DEF Settle
  <1>3. CASE attempt[c].match /\ account
    <2> DEFINE x == [pc |-> "accepted", ev |-> e]
    <2>1. /\ attempt' = [attempt EXCEPT ![c] = x]
          /\ fails' = Passed(a) /\ streak' = [streak EXCEPT ![a] = 0]
      BY <1>3 DEF Settle
    <2>2. x \in Attempt /\ x.pc = "accepted" /\ TRUE \in x.ev.valid /\ TRUE \in x.ev.exists
      BY <1>1, <1>3, AttemptForms
    <2> HIDE DEF x
    <2>3. attempt' \in [Clients -> Attempt] /\ AttemptInv' /\ VerdictsAreHonest'
      BY <1>2, <2>1, <2>2, OneAttempt
    <2>4. ThrottleTypeOK' /\ ThrottleInv' /\ streak' \in [Addrs -> Nat]
      BY <1>1, <2>1, PassedInv
    <2>5. AppPasswordsTypeOK'
      BY <1>2, <2>3, <2>4 DEF ClientsInv, AppPasswordsTypeOK
    <2> QED
      BY <1>2, <2>3, <2>4, <2>5, FileFrame DEF ClientsInv
  <1>4. CASE ~(attempt[c].match /\ account)
    <2> DEFINE x == [pc |-> "refused", ev |-> e]
    <2>1. /\ attempt' = [attempt EXCEPT ![c] = x]
          /\ fails' = Failed(a) /\ streak' = [streak EXCEPT ![a] = @ + 1]
      BY <1>4 DEF Settle
    <2>2. /\ x \in Attempt /\ x.pc = "refused"
          /\ FALSE \in x.ev.valid \/ FALSE \in x.ev.exists \/ x.ev.io
      BY <1>1, <1>4, AttemptForms
    <2> HIDE DEF x
    <2>3. attempt' \in [Clients -> Attempt] /\ AttemptInv' /\ VerdictsAreHonest'
      BY <1>2, <2>1, <2>2, OneAttempt
    <2>4. ThrottleTypeOK' /\ ThrottleInv' /\ streak' \in [Addrs -> Nat]
      BY <1>1, <2>1, RejectedInv
    <2>5. AppPasswordsTypeOK'
      BY <1>2, <2>3, <2>4 DEF ClientsInv, AppPasswordsTypeOK
    <2> QED
      BY <1>2, <2>3, <2>4, <2>5, FileFrame DEF ClientsInv
  <1> QED
    BY <1>3, <1>4

LEMMA SessionInv ==
    ASSUME ClientsInv, NEW a \in Addrs, Session(a) PROVE ClientsInv'
  <1>1. ThrottleTypeOK' /\ ThrottleInv' /\ streak' \in [Addrs -> Nat]
    BY PassedInv DEF Session
  <1>2. AppPasswordsTypeOK'
    BY <1>1 DEF Session, ClientsInv, AppPasswordsTypeOK
  <1> QED
    BY <1>1, <1>2, FileFrame, AttemptFrame DEF Session, ClientsInv

LEMMA ForgetClients ==
    ASSUME ClientsInv, Restart PROVE ClientsInv'
  <1>1. attempt' \in [Clients -> Attempt] /\ AttemptInv' /\ VerdictsAreHonest'
    BY DEF Restart, Attempt, AttemptInv, VerdictsAreHonest
  <1>2. AppPasswordsTypeOK'
    BY <1>1 DEF Restart, ClientsInv, AppPasswordsTypeOK
  <1>3. ThrottleTypeOK' /\ ThrottleInv'
    BY DEF Restart, ThrottleTypeOK, ThrottleInv
  <1>4. FileInv'
    BY DEF Restart, ClientsInv, FileInv
  <1> QED
    BY <1>1, <1>2, <1>3, <1>4 DEF ClientsInv
-----------------------------------------------------------------------------
(* The rate limiter *)

\* The sweep takes whole accounts, and only idle ones.
LEMMA ActiveForm ==
    ASSUME NEW now
    PROVE  /\ DOMAIN Active(now) \subseteq DOMAIN hits
           /\ \A u \in DOMAIN Active(now) : Active(now)[u] = hits[u]
           /\ \A u \in DOMAIN hits \ DOMAIN Active(now) : Idle(hits[u], now)
  BY DEF Active, RestrictValues, Restrict

\* What is kept was remembered; what is not has expired, or its account is idle.
LEMMA KeptForm ==
    ASSUME NEW u, NEW now
    PROVE  /\ DOMAIN Kept(u, now) \subseteq DOMAIN Remembered(u)
           /\ \A n \in DOMAIN Kept(u, now) : Kept(u, now)[n] = Remembered(u)[n]
           /\ \A n \in DOMAIN Remembered(u) \ DOMAIN Kept(u, now) :
                  ~Recent(Remembered(u)[n], now) \/ Idle(Remembered(u), now)
  <1>1. CASE u \in DOMAIN Active(now)
    <2>1. u \in DOMAIN hits /\ Remembered(u) = Active(now)[u]
      BY <1>1, ActiveForm DEF Remembered
    <2>2. Kept(u, now) = RestrictValues(Remembered(u), LAMBDA t : Recent(t, now))
      BY <1>1, <2>1 DEF Kept
    <2> QED
      BY <2>2 DEF RestrictValues, Restrict
  <1>2. CASE u \notin DOMAIN Active(now)
    <2>1. Kept(u, now) = <<>> /\ DOMAIN Kept(u, now) = {}
      BY <1>2 DEF Kept
    <2>2. u \in DOMAIN hits => Idle(Remembered(u), now)
      BY <1>2, ActiveForm DEF Remembered
    <2>3. u \notin DOMAIN hits => DOMAIN Remembered(u) = {}
      BY DEF Remembered
    <2> QED
      BY <2>1, <2>2, <2>3
  <1> QED
    BY <1>1, <1>2

LEMMA Admissions ==
    ASSUME NEW all \in Seq(Admission)
    PROVE  /\ Len(all) \in Nat /\ DOMAIN all = 1 .. Len(all)
           /\ \A k \in DOMAIN all : all[k] \in Admission /\ all[k].at \in Nat
  <1>1. Len(all) \in Nat /\ DOMAIN all = 1 .. Len(all)
    OBVIOUS
  <1>2. ASSUME NEW k \in DOMAIN all PROVE all[k] \in Admission /\ all[k].at \in Nat
    <2>1. all[k] \in Admission
      OBVIOUS
    <2> QED
      BY <2>1 DEF Admission
  <1> QED
    BY <1>1, <1>2

LEMMA UpTo ==
    ASSUME NEW m \in Nat PROVE IsFiniteSet(1 .. m)
  <1>1. m \in Int /\ 1 \in Int
    OBVIOUS
  <1> QED
    BY <1>1, FS_Interval

\* The latest reading after a request that entered with now.
Newer(now) == IF now < newest THEN newest ELSE now

\* Forgetting what has expired and what is idle keeps what Remembers says: an idle
\* account's last admission, which is not late, has its latest reading.
LEMMA Forgetting ==
    ASSUME NEW all \in Seq(Admission), NEW old, Remembers(all, old),
           \A i \in DOMAIN old : old[i] \in Nat,
           NEW kept, NEW now \in Nat, newest \in Nat,
           \A n \in DOMAIN old \ DOMAIN kept : ~Recent(old[n], now) \/ Idle(old, now),
           NEW i \in DOMAIN all, i \notin DOMAIN kept,
           \A k \in i + 1 .. Len(all) : ~all[k].late
    PROVE  all[i].at + Window <= Newer(now)
  <1>1. /\ Window \in Nat /\ Newer(now) \in Nat /\ newest <= Newer(now) /\ now <= Newer(now)
        /\ \A k \in DOMAIN all : all[k].at \in Nat
        /\ DOMAIN all = 1 .. Len(all) /\ Len(all) \in Nat
        /\ DOMAIN old \subseteq DOMAIN all
    BY Admissions, LimitsAssumption DEF Newer, Remembers
  <1>2. CASE i \notin DOMAIN old
    <2>1. all[i].at + Window <= newest
      BY <1>2 DEF Remembers
    <2> QED
      BY <1>1, <2>1
  <1>3. CASE i \in DOMAIN old /\ ~Recent(old[i], now)
    <2>1. old[i] = all[i].at
      BY <1>3 DEF Remembers
    <2> QED
      BY <1>1, <1>3, <2>1 DEF Recent
  <1>4. CASE i \in DOMAIN old /\ Idle(old, now)
    <2>1. PICK n \in DOMAIN old : ~Recent(old[n], now) /\ \A m \in DOMAIN old : m <= n
      BY <1>4 DEF Idle
    <2>2. n \in DOMAIN all /\ i <= n /\ old[n] = all[n].at
      BY <1>1, <1>4, <2>1 DEF Remembers
    <2>3. all[i].at <= all[n].at
      <3>1. CASE i = n
        BY <1>1, <3>1
      <3>2. CASE i < n
        <4>1. n \in i + 1 .. Len(all) /\ i \in 1 .. n
          BY <1>1, <2>2, <3>2
        <4> QED
          BY <2>2, <4>1 DEF Remembers
      <3> QED
        BY <1>1, <2>2, <3>1, <3>2
    <2> QED
      BY <1>1, <2>1, <2>2, <2>3 DEF Recent
  <1> QED
    BY <1>2, <1>3, <1>4

\* Whoever is let through and is not late finds fewer than RateMax admissions in the
\* window before it.
LEMMA Admitting ==
    ASSUME NEW all \in Seq(Admission), NEW kept, NEW now \in Nat,
           DOMAIN kept \subseteq DOMAIN all,
           \A i \in DOMAIN all :
               i \notin DOMAIN kept /\ (\A k \in i + 1 .. Len(all) : ~all[k].late)
                   => all[i].at + Window <= now,
           \A i \in DOMAIN all : ~all[i].late => \A h \in 1 .. i : all[h].at <= all[i].at,
           Cardinality(DOMAIN kept) < RateMax,
           NEW i \in DOMAIN all, i + RateMax <= Len(all) + 1,
           \A k \in i + 1 .. Len(all) : ~all[k].late
    PROVE  all[i].at + Window <= now
  <1>1. /\ Window \in Nat /\ RateMax \in Nat /\ Len(all) \in Nat /\ DOMAIN all = 1 .. Len(all)
        /\ i \in Nat /\ i <= Len(all) /\ \A k \in DOMAIN all : all[k].at \in Nat
    BY Admissions, LimitsAssumption
  <1>2. SUFFICES ASSUME ~(all[i].at + Window <= now) PROVE FALSE
    OBVIOUS
  <1>3. i .. Len(all) \subseteq DOMAIN kept
    <2> SUFFICES ASSUME NEW k \in i .. Len(all), k \notin DOMAIN kept PROVE FALSE
      OBVIOUS
    <2>1. k \in DOMAIN all /\ \A h \in k + 1 .. Len(all) : ~all[h].late
      BY <1>1
    <2>2. all[k].at + Window <= now
      BY <2>1
    <2>3. all[i].at <= all[k].at
      <3>1. CASE k = i
        BY <1>1, <3>1
      <3>2. CASE k # i
        <4>1. k \in i + 1 .. Len(all) /\ i \in 1 .. k
          BY <1>1, <3>2
        <4> QED
          BY <2>1, <4>1
      <3> QED
        BY <3>1, <3>2
    <2> QED
      BY <1>1, <1>2, <2>1, <2>2, <2>3
  <1>4. Cardinality(i .. Len(all)) = Len(all) - i + 1
    BY <1>1, FS_Interval
  <1>5. IsFiniteSet(DOMAIN kept)
    <2>1. IsFiniteSet(1 .. Len(all))
      BY <1>1, FS_Interval
    <2> QED
      BY <1>1, <2>1, FS_Subset
  <1>6. Cardinality(i .. Len(all)) <= Cardinality(DOMAIN kept)
    BY <1>3, <1>5, FS_Subset
  <1>7. Cardinality(DOMAIN kept) \in Nat
    BY <1>5, FS_CardinalityType
  <1> QED
    BY <1>1, <1>4, <1>6, <1>7

\* A lookup that takes the lock with the reading it made before.
LEMMA EnterLimiter ==
    ASSUME LimiterInv, NEW u \in Users, NEW now \in Nat,
           hits' = Counted(u, now, Len(admitted[u]) + 1),
           newest' = Newer(now),
           admitted' = IF Allowed(u, now)
                       THEN [admitted EXCEPT ![u] = Append(@, [at |-> now, late |-> now < newest])]
                       ELSE admitted
    PROVE  LimiterInv'
  <1> DEFINE all  == admitted[u]
             old  == Remembered(u)
             kept == Kept(u, now)
             n    == Len(all) + 1
             adm  == [at |-> now, late |-> now < newest]
             mine == IF Allowed(u, now) THEN Put(kept, n, now) ELSE kept
  <1>1. /\ all \in Seq(Admission) /\ Len(all) \in Nat /\ DOMAIN all = 1 .. Len(all)
        /\ \A k \in DOMAIN all : all[k].at \in Nat
        /\ newest \in Nat /\ newest' \in Nat /\ newest <= newest' /\ now <= newest'
        /\ RateMax \in Nat \ {0} /\ Window \in Nat
    BY Admissions, LimitsAssumption DEF LimiterInv, RateTypeOK, Newer
  <1>2. Remembers(all, old) /\ \A i \in DOMAIN old : old[i] \in Nat
    BY DEF LimiterInv, RateInv, RateTypeOK, Remembered
  <1>3. /\ DOMAIN kept \subseteq DOMAIN old /\ \A i \in DOMAIN kept : kept[i] = old[i]
        /\ \A i \in DOMAIN old \ DOMAIN kept : ~Recent(old[i], now) \/ Idle(old, now)
    BY KeptForm
  <1>4. /\ hits' = [v \in DOMAIN Active(now) \cup {u} |-> IF v = u THEN mine ELSE Active(now)[v]]
        /\ Allowed(u, now) <=> Cardinality(DOMAIN kept) < RateMax
    BY DEF Counted, Allowed, Put
  <1>5. /\ ~Allowed(u, now) => mine = kept
        /\ Allowed(u, now) => /\ DOMAIN mine = DOMAIN kept \cup {n} /\ mine[n] = now
                              /\ \A i \in DOMAIN kept \ {n} : mine[i] = kept[i]
    BY DEF Put
  <1> HIDE DEF kept, mine, old
  <1>6. DOMAIN kept \subseteq DOMAIN all /\ \A i \in DOMAIN kept : kept[i] = all[i].at
    BY <1>2, <1>3 DEF Remembers
  <1>7. n \notin DOMAIN kept /\ n \in Nat \ {0}
    BY <1>1, <1>6
  <1>8. IsFiniteSet(DOMAIN kept) /\ Cardinality(DOMAIN kept) \in Nat
    <2>1. IsFiniteSet(1 .. Len(all))
      BY <1>1, UpTo
    <2> QED
      BY <1>1, <1>6, <2>1, FS_Subset, FS_CardinalityType
  <1>9. RateTypeOK'
    <2>1. admitted' \in [Users -> Seq(Admission)]
      <3>1. adm \in Admission
        BY DEF Admission
      <3> HIDE DEF adm
      <3>2. Append(all, adm) \in Seq(Admission)
        BY <1>1, <3>1
      <3>3. admitted' = IF Allowed(u, now) THEN [admitted EXCEPT ![u] = Append(all, adm)]
                        ELSE admitted
        BY DEF adm
      <3> HIDE DEF all
      <3> QED
        BY <3>2, <3>3 DEF LimiterInv, RateTypeOK
    <2>2. /\ DOMAIN mine \subseteq Nat \ {0} /\ \A i \in DOMAIN mine : mine[i] \in Nat
          /\ Cardinality(DOMAIN mine) \in 1 .. RateMax
      <3>1. CASE Allowed(u, now)
        <4>1. Cardinality(DOMAIN kept \cup {n}) = Cardinality(DOMAIN kept) + 1
          BY <1>7, <1>8, FS_AddElement
        <4>2. Cardinality(DOMAIN mine) \in 1 .. RateMax
          BY <1>1, <1>4, <1>5, <1>8, <3>1, <4>1
        <4>3. ASSUME NEW i \in DOMAIN mine PROVE i \in Nat \ {0} /\ mine[i] \in Nat
          <5>1. CASE i = n
            BY <1>5, <1>7, <3>1, <5>1
          <5>2. CASE i # n
            <6>1. i \in DOMAIN kept /\ mine[i] = kept[i]
              BY <1>5, <3>1, <5>2
            <6>2. i \in 1 .. Len(all) /\ kept[i] \in Nat
              BY <1>1, <1>6, <6>1
            <6> QED
              BY <1>1, <6>1, <6>2
          <5> QED
            BY <5>1, <5>2
        <4> QED
          BY <4>2, <4>3
      <3>2. CASE ~Allowed(u, now)
        <4>1. u \in DOMAIN hits /\ old = hits[u]
          <5> SUFFICES ASSUME u \notin DOMAIN hits PROVE FALSE
            BY DEF old, Remembered
          <5>1. DOMAIN old = {}
            BY DEF old, Remembered
          <5>2. DOMAIN kept = {}
            BY <1>3, <5>1
          <5> QED
            BY <1>1, <1>4, <3>2, <5>2, FS_EmptySet
        <4>2. IsFiniteSet(DOMAIN old)
          <5>1. DOMAIN old \subseteq 1 .. Len(all) /\ IsFiniteSet(1 .. Len(all))
            BY <1>1, <1>2, UpTo DEF Remembers
          <5> QED
            BY <5>1, FS_Subset
        <4>3. Cardinality(DOMAIN kept) <= Cardinality(DOMAIN old)
          BY <1>3, <4>2, FS_Subset
        <4>4. Cardinality(DOMAIN old) \in 1 .. RateMax
          BY <4>1 DEF LimiterInv, RateTypeOK
        <4> QED
          BY <1>1, <1>4, <1>5, <1>6, <1>8, <3>2, <4>3, <4>4
      <3> QED
        BY <3>1, <3>2
    <2>3. DOMAIN hits' \subseteq Users
      BY <1>4, ActiveForm DEF LimiterInv, RateTypeOK
    <2>4. ASSUME NEW v \in DOMAIN hits'
          PROVE  /\ DOMAIN hits'[v] \subseteq Nat \ {0} /\ \A i \in DOMAIN hits'[v] : hits'[v][i] \in Nat
                 /\ Cardinality(DOMAIN hits'[v]) \in 1 .. RateMax
      <3>1. CASE v = u
        BY <1>4, <2>2, <3>1
      <3>2. CASE v # u
        <4>1. v \in DOMAIN hits /\ hits'[v] = hits[v]
          BY <1>4, <3>2, ActiveForm
        <4> QED
          BY <4>1 DEF LimiterInv, RateTypeOK
      <3> QED
        BY <3>1, <3>2
    <2> QED
      BY <1>1, <2>1, <2>3, <2>4 DEF RateTypeOK
  <1>10. ASSUME NEW i \in DOMAIN all, i \notin DOMAIN kept, \A k \in i + 1 .. Len(all) : ~all[k].late
         PROVE  all[i].at + Window <= newest'
    BY <1>1, <1>2, <1>3, <1>10, Forgetting
  <1>11. ASSUME NEW v \in Users, v # u PROVE Remembers(admitted[v], Remembered(v))' /\ admitted'[v] = admitted[v]
    <2>1. /\ admitted[v] \in Seq(Admission) /\ Remembers(admitted[v], Remembered(v))
          /\ admitted'[v] = admitted[v]
          /\ \A i \in DOMAIN Remembered(v) : Remembered(v)[i] \in Nat
      BY <1>11 DEF LimiterInv, RateInv, RateTypeOK, Remembered
    <2> DEFINE h == Remembered(v)'
    <2>2. /\ DOMAIN h \subseteq DOMAIN Remembered(v) /\ \A i \in DOMAIN h : h[i] = Remembered(v)[i]
          /\ \A i \in DOMAIN Remembered(v) \ DOMAIN h : Idle(Remembered(v), now)
      BY <1>4, <1>11, ActiveForm DEF Remembered
    <2> HIDE DEF h
    <2>3. ASSUME NEW i \in DOMAIN admitted[v], i \notin DOMAIN h,
                 \A k \in i + 1 .. Len(admitted[v]) : ~admitted[v][k].late
          PROVE  admitted[v][i].at + Window <= newest'
      BY <1>1, <2>1, <2>2, <2>3, Forgetting
    <2>4. \A i \in DOMAIN admitted[v] : admitted[v][i].at \in Nat
      BY <2>1, Admissions
    <2>5. \A i \in DOMAIN admitted[v] : admitted[v][i].at <= newest'
      BY <1>1, <2>1, <2>4 DEF Remembers
    <2>6. \A i \in DOMAIN admitted[v] :
              ~admitted[v][i].late => \A g \in 1 .. i : admitted[v][g].at <= admitted[v][i].at
      BY <2>1 DEF Remembers
    <2>7. DOMAIN h \subseteq DOMAIN admitted[v] /\ \A i \in DOMAIN h : h[i] = admitted[v][i].at
      BY <2>1, <2>2 DEF Remembers
    <2> QED
      BY <2>1, <2>3, <2>5, <2>6, <2>7 DEF Remembers, h
  <1>12. CASE ~Allowed(u, now)
    <2>1. admitted' = admitted /\ Remembered(u)' = kept
      BY <1>4, <1>5, <1>12 DEF Remembered
    <2>2. \A i \in DOMAIN all : all[i].at <= newest'
      BY <1>1, <1>2 DEF Remembers
    <2>3. Remembers(admitted[u], Remembered(u))'
      BY <1>2, <1>6, <1>10, <2>1, <2>2 DEF Remembers
    <2>4. RateHolds'
      BY <2>1 DEF LimiterInv, RateInv, RateHolds
    <2> QED
      BY <1>9, <1>11, <2>3, <2>4 DEF LimiterInv, RateInv
  <1>13. CASE Allowed(u, now)
    <2> DEFINE b == Append(all, adm)
    <2>1. /\ Len(b) = n /\ DOMAIN b = 1 .. n /\ b[n] = adm
          /\ \A i \in DOMAIN all : i \in DOMAIN b /\ b[i] = all[i]
          /\ \A i \in DOMAIN b : i \in DOMAIN all \/ i = n
      BY <1>1
    <2>2. admitted'[u] = b /\ Remembered(u)' = mine
      BY <1>4, <1>13 DEF Remembered, LimiterInv, RateTypeOK
    <2>3. adm.at = now /\ adm.late = (now < newest)
      OBVIOUS
    <2> HIDE DEF adm, b
    <2>4. \A i \in DOMAIN b : b[i].at <= newest' /\ b[i].at \in Nat
      BY <1>1, <1>2, <2>1, <2>3 DEF Remembers
    <2>5. ~adm.late => newest' = now /\ newest <= now
      BY <1>1, <2>3 DEF Newer
    <2>6. ASSUME NEW i \in DOMAIN b, ~b[i].late, NEW g \in 1 .. i PROVE b[g].at <= b[i].at
      <3>1. CASE i = n
        BY <1>1, <2>1, <2>3, <2>4, <2>5, <2>6, <3>1
      <3>2. CASE i # n
        <4>1. i \in DOMAIN all /\ g \in DOMAIN all
          BY <1>1, <2>1, <3>2
        <4> QED
          BY <1>2, <2>1, <2>6, <4>1 DEF Remembers
      <3> QED
        BY <3>1, <3>2
    <2>7. ASSUME NEW i \in DOMAIN b, i \notin DOMAIN mine, \A k \in i + 1 .. Len(b) : ~b[k].late
          PROVE  b[i].at + Window <= newest'
      <3>1. i \in DOMAIN all /\ i \notin DOMAIN kept
        BY <1>5, <1>13, <2>1, <2>7
      <3>2. ASSUME NEW k \in i + 1 .. Len(all) PROVE k \in i + 1 .. Len(b) /\ b[k] = all[k]
        <4>1. i \in 1 .. Len(all)
          BY <1>1, <3>1
        <4>2. k \in 1 .. Len(all) /\ k \in i + 1 .. n
          BY <1>1, <4>1
        <4> QED
          BY <1>1, <2>1, <4>2
      <3> QED
        BY <1>10, <2>1, <2>7, <3>1, <3>2
    <2>8. DOMAIN mine \subseteq DOMAIN b /\ \A i \in DOMAIN mine : mine[i] = b[i].at
      BY <1>1, <1>5, <1>6, <1>7, <1>13, <2>1, <2>3
    <2>9. Remembers(admitted[u], Remembered(u))'
      BY <2>2, <2>4, <2>6, <2>7, <2>8 DEF Remembers
    <2>10. ASSUME NEW v \in Users, NEW i \in DOMAIN admitted'[v], NEW j \in DOMAIN admitted'[v],
                  i + RateMax <= j, \A k \in i + 1 .. j : ~admitted'[v][k].late
           PROVE  admitted'[v][i].at + Window <= admitted'[v][j].at
      <3>1. CASE v # u
        <4>1. admitted'[v] = admitted[v]
          BY <1>11, <3>1
        <4> QED
          BY <2>10, <4>1 DEF LimiterInv, RateInv, RateHolds
      <3>2. CASE v = u /\ j # n
        <4>1. /\ i \in DOMAIN all /\ j \in DOMAIN all /\ b[i] = all[i] /\ b[j] = all[j]
              /\ \A k \in i + 1 .. j : b[k] = all[k]
          <5>1. /\ i \in 1 .. n /\ j \in 1 .. n /\ i + RateMax <= j
            BY <2>1, <2>2, <2>10, <3>2
          <5>2. /\ i \in 1 .. Len(all) /\ j \in 1 .. Len(all)
                /\ \A k \in i + 1 .. j : k \in 1 .. Len(all)
            <6> DEFINE m == Len(all)
            <6>1. m \in Nat /\ n = m + 1
              BY <1>1
            <6> HIDE DEF m, n
            <6>2. i \in 1 .. m /\ j \in 1 .. m
              BY <1>1, <3>2, <5>1, <6>1
            <6>3. \A k \in i + 1 .. j : k \in 1 .. m
              BY <6>1, <6>2
            <6> QED
              BY <6>2, <6>3 DEF m
          <5> QED
            BY <1>1, <2>1, <5>2
        <4> QED
          BY <2>2, <2>10, <3>2, <4>1 DEF LimiterInv, RateInv, RateHolds
      <3>3. CASE v = u /\ j = n
        <4>1. i \in DOMAIN all /\ b[i] = all[i] /\ i \in Nat
          BY <1>1, <2>1, <2>2, <2>10, <3>3
        <4>2. ~adm.late
          BY <1>1, <2>1, <2>2, <2>10, <3>3, <4>1
        <4>3. \A k \in i + 1 .. Len(all) : ~all[k].late
          <5>1. \A k \in i + 1 .. Len(all) : k \in i + 1 .. n /\ k \in DOMAIN all
            BY <1>1, <4>1
          <5> QED
            BY <2>1, <2>2, <2>10, <3>3, <5>1
        <4>4. \A k \in DOMAIN all : ~all[k].late => \A h \in 1 .. k : all[h].at <= all[k].at
          BY <1>2 DEF Remembers
        <4>5. all[i].at + Window <= now
          <5>1. newest' = now /\ Cardinality(DOMAIN kept) < RateMax /\ i + RateMax <= Len(all) + 1
            BY <1>4, <1>13, <2>5, <2>10, <3>3, <4>2
          <5>2. \A h \in DOMAIN all :
                    h \notin DOMAIN kept /\ (\A k \in h + 1 .. Len(all) : ~all[k].late)
                        => all[h].at + Window <= now
            BY <1>10, <5>1
          <5> HIDE DEF all
          <5> QED
            BY <1>1, <1>6, <4>1, <4>3, <4>4, <5>1, <5>2, Admitting
        <4> QED
          BY <2>1, <2>2, <2>3, <3>3, <4>1, <4>5
      <3> QED
        BY <3>1, <3>2, <3>3
    <2>11. RateHolds'
      BY <2>10 DEF RateHolds
    <2> QED
      BY <1>9, <1>11, <2>9, <2>11 DEF LimiterInv, RateInv
  <1> QED
    BY <1>12, <1>13

LEMMA LimiterFrame ==
    ASSUME LimiterInv, UNCHANGED <<hits, newest, admitted>> PROVE LimiterInv'
  BY DEF LimiterInv, RateTypeOK, RateInv, Remembers, Remembered, RateHolds

\* A daemon that has just started remembers nothing and has let nobody through.
JustStarted == hits = <<>> /\ newest = 0 /\ admitted = [u \in Users |-> <<>>]

LEMMA NothingLimiter == JustStarted => LimiterInv
  <1> SUFFICES ASSUME JustStarted PROVE LimiterInv
    OBVIOUS
  <1> USE DEF JustStarted
  <1>1. DOMAIN hits = {} /\ \A u \in Users : admitted[u] = <<>> /\ Remembered(u) = <<>>
    BY DEF Remembered
  <1>2. RateTypeOK
    BY <1>1 DEF RateTypeOK
  <1>3. Remembers(<<>>, <<>>)
    BY DEF Remembers
  <1>4. RateHolds
    BY <1>1 DEF RateHolds
  <1> QED
    BY <1>1, <1>2, <1>3, <1>4 DEF LimiterInv, RateInv
-----------------------------------------------------------------------------
(* The caches *)

LEMMA CacheFrame == ASSUME CacheInv, UNCHANGED cache PROVE CacheInv'
  BY DEF CacheInv

\* One entry more, or the first one of a cache that was emptied.
LEMMA StoredInv ==
    ASSUME CacheInv, clock \in Nat, NEW i \in Inputs, cache' = Stored(i) PROVE CacheInv'
  <1> DEFINE kind == IF i \in Queries THEN Queries ELSE PlaceIds
             full == Cardinality(kind \cap DOMAIN cache) >= CacheCap
             old  == IF full THEN Restrict(cache, DOMAIN cache \ kind) ELSE cache
  <1>1. cache' = [k \in DOMAIN old \cup {i} |-> IF k = i THEN clock ELSE old[k]]
    BY DEF Stored, Put
  <1>2. /\ DOMAIN old = IF full THEN DOMAIN cache \ kind ELSE DOMAIN cache
        /\ \A k \in DOMAIN old : k \in DOMAIN cache /\ old[k] = cache[k]
    BY DEF Restrict
  <1>3. kind \in {Queries, PlaceIds} /\ i \in kind /\ CacheCap \in Nat \ {0}
    BY PlaceSearchAssumption DEF Inputs
  <1>4. \A K \in {Queries, PlaceIds} : K # kind => i \notin K /\ K \cap kind = {}
    BY PlaceSearchAssumption DEF Inputs
  <1> HIDE DEF old, full
  <1>5. \A k \in DOMAIN cache' : k \in Inputs /\ cache'[k] \in Nat
    BY <1>1, <1>2 DEF CacheInv
  <1>6. IsFiniteSet(DOMAIN cache')
    <2>1. IsFiniteSet(DOMAIN old)
      BY <1>2, FS_Subset DEF CacheInv
    <2> QED
      BY <1>1, <2>1, FS_AddElement
  <1>7. ASSUME NEW K \in {Queries, PlaceIds} PROVE Cardinality(K \cap DOMAIN cache') <= CacheCap
    <2>1. IsFiniteSet(K \cap DOMAIN cache) /\ Cardinality(K \cap DOMAIN cache) \in Nat
      BY FS_Subset, FS_CardinalityType DEF CacheInv
    <2>2. CASE K # kind
      <3>1. K \cap DOMAIN cache' = K \cap DOMAIN cache
        BY <1>1, <1>2, <1>4, <2>2
      <3> QED
        BY <3>1 DEF CacheInv
    <2>3. CASE K = kind /\ full
      <3>1. K \cap DOMAIN cache' = {i}
        BY <1>1, <1>2, <1>3, <2>3
      <3>2. Cardinality({i}) = 1
        BY FS_Singleton
      <3> QED
        BY <1>3, <3>1, <3>2
    <2>4. CASE K = kind /\ ~full
      <3>1. K \cap DOMAIN cache' = (K \cap DOMAIN cache) \cup {i}
        BY <1>1, <1>2, <1>3, <2>4
      <3> DEFINE S == K \cap DOMAIN cache
      <3>2. Cardinality(S \cup {i}) = IF i \in S THEN Cardinality(S) ELSE Cardinality(S) + 1
        <4> HIDE DEF S
        <4>1. IsFiniteSet(S)
          BY <2>1 DEF S
        <4> QED
          BY <4>1, FS_AddElement
      <3>3. Cardinality(K \cap DOMAIN cache) < CacheCap
        BY <1>3, <2>1, <2>4 DEF full
      <3> QED
        BY <1>3, <2>1, <3>1, <3>2, <3>3
    <2> QED
      BY <2>2, <2>3, <2>4
  <1> QED
    BY <1>5, <1>6, <1>7 DEF CacheInv

-----------------------------------------------------------------------------
(* The budget *)

LEMMA Division ==
    ASSUME NEW m \in Nat, NEW n \in Nat, m <= n, NEW d \in Nat \ {0}
    PROVE  m \div d \in Nat /\ n \div d \in Nat /\ m \div d <= n \div d
  OBVIOUS

LEMMA Product ==
    ASSUME NEW c \in Nat, NEW n \in Nat
    PROVE  /\ c * n \in Nat /\ c * (n + 1) \in Nat
           /\ c * (n + 1) = c * n + c
           /\ n > 0 => c * (n - 1) \in Nat /\ c * n = c * (n - 1) + c
  OBVIOUS

LEMMA TodayIsADay ==
    ASSUME clock \in Nat, clock <= MaxTime PROVE Today \in Nat /\ Today \in Days
  BY Division, PlaceSearchAssumption DEF Today, Days

LEMMA SpendingFrame ==
    ASSUME SpendingInv, UNCHANGED <<clock, day, spent, called, lives>>, lookup' \in [Searches -> Lookup]
    PROVE  SpendingInv'
  BY DEF SpendingInv, BudgetInv, BudgetHolds, Today, SpentToday

LEMMA OneLookup ==
    ASSUME SpendingInv, NEW s \in Searches, NEW x \in Lookup,
           lookup' = [lookup EXCEPT ![s] = x] \/ lookup' = lookup
    PROVE  lookup' \in [Searches -> Lookup]
  BY DEF SpendingInv

LEMMA AskSpending ==
    ASSUME SpendingInv, NEW s \in Searches, NEW u \in Users, NEW i \in Inputs, Ask(s, u, i)
    PROVE  SpendingInv'
  <1>1. [pc |-> "read", user |-> u, input |-> i, now |-> clock] \in Lookup
    BY DEF Lookup, SpendingInv
  <1>2. lookup' \in [Searches -> Lookup]
    BY <1>1, OneLookup DEF Ask
  <1> QED
    BY <1>2, SpendingFrame DEF Ask, limits

LEMMA EnterSpending ==
    ASSUME SpendingInv, NEW s \in Searches, Enter(s) PROVE SpendingInv'
  <1>1. lookup[s] \in Lookup /\ lookup[s].pc = "read"
    BY DEF SpendingInv, Enter
  <1>2. lookup[s].input \in Inputs
    BY <1>1 DEF Lookup
  <1> DEFINE i == lookup[s].input
             x == IF Allowed(lookup[s].user, lookup[s].now) /\ ~Fresh(i)
                  THEN [pc |-> "missed", input |-> i] ELSE [pc |-> "idle"]
  <1>3. x \in Lookup
    BY <1>2 DEF Lookup
  <1>4. lookup' = [lookup EXCEPT ![s] = x]
    BY DEF Enter
  <1> HIDE DEF x
  <1>5. lookup' \in [Searches -> Lookup]
    BY <1>3, <1>4, OneLookup
  <1> QED
    BY <1>5, SpendingFrame DEF Enter

LEMMA DoneSpending ==
    ASSUME SpendingInv, NEW s \in Searches, Answer(s) \/ Fail(s) PROVE SpendingInv'
  <1>1. [pc |-> "idle"] \in Lookup
    BY DEF Lookup
  <1>2. lookup' \in [Searches -> Lookup]
    BY <1>1, OneLookup DEF Answer, Fail
  <1> QED
    BY <1>2, SpendingFrame DEF Answer, Fail, limits

\* A call is charged to the day it is made on, and only below the cap.
LEMMA ChargeSpending ==
    ASSUME SpendingInv, NEW s \in Searches, Charge(s) PROVE SpendingInv'
  <1> DEFINE one == IF Affordable THEN 1 ELSE 0
  <1>1. /\ clock \in Nat \ {0} /\ clock <= MaxTime /\ DailyCap \in Nat
        /\ day \in Days /\ spent \in Nat /\ day \in Nat
        /\ called \in [Days -> Nat] /\ lives \in [Days -> Nat] /\ lookup[s] \in Lookup
        /\ Today \in Nat /\ Today \in Days /\ UNCHANGED <<clock, lives>>
    BY TodayIsADay, PlaceSearchAssumption DEF SpendingInv, Charge, limits, Days
  <1>2. Today' = Today
    BY <1>1 DEF Today
  <1>3. one \in {0, 1} /\ called' = [called EXCEPT ![Today] = @ + one]
    BY DEF Charge
  <1>4. /\ called' \in [Days -> Nat] /\ called'[Today] = called[Today] + one
        /\ \A d \in Days : d # Today => called'[d] = called[d]
    BY <1>1, <1>3
  <1>5. lookup' \in [Searches -> Lookup]
    <2> DEFINE x == IF Affordable THEN [lookup[s] EXCEPT !.pc = "asking"] ELSE [pc |-> "idle"]
    <2>1. x \in Lookup
      BY <1>1 DEF Charge, Lookup
    <2>2. lookup' = [lookup EXCEPT ![s] = x]
      BY DEF Charge
    <2> HIDE DEF x
    <2> QED
      BY <2>1, <2>2, OneLookup
  <1>6. SpentToday \in Nat
    BY <1>1 DEF SpentToday
  <1>7. CASE DailyCap = 0
    BY <1>1, <1>2, <1>4, <1>5, <1>7 DEF Charge, SpendingInv, BudgetInv, BudgetHolds
  <1>8. CASE DailyCap > 0
    <2>1. /\ day' = Today /\ spent' = SpentToday + one
          /\ Affordable <=> SpentToday < DailyCap
      BY <1>8, <1>1 DEF Charge, Affordable
    <2>2. /\ SpentToday <= DailyCap
          /\ called[Today] <= DailyCap * (lives[Today] - 1) + SpentToday
          /\ lives[Today] > 0 /\ lives[Today] \in Nat /\ called[Today] \in Nat
      BY <1>1, <1>8 DEF SpendingInv, BudgetInv
    <2>3. SpentToday' = SpentToday + one /\ SpentToday + one <= DailyCap
      BY <1>1, <1>2, <1>6, <2>1, <2>2 DEF SpentToday
    <2> DEFINE p == DailyCap * (lives[Today] - 1)
    <2>4. p \in Nat /\ DailyCap * lives[Today] = p + DailyCap
      BY <1>1, <2>2, Product
    <2> HIDE DEF p, one
    <2>5. called'[Today] <= p + (SpentToday + one)
      BY <1>3, <1>4, <1>6, <2>2, <2>4 DEF p
    <2>6. called'[Today] <= DailyCap * lives[Today]
      BY <1>1, <1>3, <1>4, <1>6, <2>2, <2>3, <2>4, <2>5
    <2>7. BudgetHolds'
      BY <1>1, <1>4, <2>6 DEF SpendingInv, BudgetInv, BudgetHolds
    <2>8. BudgetInv'
      BY <1>1, <1>2, <1>4, <2>1, <2>3, <2>5, <2>7 DEF SpendingInv, BudgetInv, p
    <2>9. spent' \in Nat /\ day' \in Days
      BY <1>1, <1>3, <1>6, <2>1
    <2> QED
      BY <1>1, <1>4, <1>5, <2>8, <2>9 DEF SpendingInv
  <1> QED
    BY <1>1, <1>7, <1>8

\* A new day starts at nothing, and nothing was charged to it before.
LEMMA TickSpending ==
    ASSUME SpendingInv, Tick PROVE SpendingInv'
  <1>1. /\ clock \in Nat \ {0} /\ clock' = clock + 1 /\ clock' <= MaxTime
        /\ DailyCap \in Nat /\ day \in Nat /\ day <= Today
        /\ called \in [Days -> Nat] /\ lives \in [Days -> Nat]
        /\ UNCHANGED <<day, spent, lookup, called, lives>>
    BY PlaceSearchAssumption DEF SpendingInv, BudgetInv, Tick, placeSearch, Days
  <1>2. Today \in Nat /\ Today' \in Nat /\ Today <= Today'
    BY <1>1, Division, PlaceSearchAssumption DEF Today
  <1>3. Today' \in Days
    BY <1>1, Division, PlaceSearchAssumption DEF Today, Days
  <1>4. CASE Today' = Today
    BY <1>1, <1>2, <1>4 DEF SpendingInv, BudgetInv, BudgetHolds, SpentToday
  <1>5. CASE Today' > Today
    <2>1. SpentToday' = 0
      BY <1>1, <1>2, <1>5 DEF SpentToday
    <2>2. called[Today'] = 0 /\ lives[Today'] \in Nat /\ lives[Today'] > 0
      BY <1>1, <1>3, <1>5 DEF SpendingInv, BudgetInv
    <2>3. DailyCap * (lives[Today'] - 1) \in Nat
      BY <1>1, <2>2, Product
    <2>4. \A d \in Days : d > Today' => d > Today
      BY <1>2 DEF Days
    <2>5. BudgetInv'
      BY <1>1, <1>2, <2>1, <2>2, <2>3, <2>4 DEF SpendingInv, BudgetInv, BudgetHolds
    <2> QED
      BY <1>1, <2>5 DEF SpendingInv
  <1> QED
    BY <1>2, <1>4, <1>5

\* A restart forgets what was spent, and is counted.
LEMMA RestartSpending ==
    ASSUME SpendingInv, Restart PROVE SpendingInv'
  <1>1. /\ clock \in Nat \ {0} /\ clock <= MaxTime /\ DailyCap \in Nat
        /\ called \in [Days -> Nat] /\ lives \in [Days -> Nat]
        /\ Today \in Nat /\ Today \in Days /\ UNCHANGED <<clock, called>>
        /\ day' = 0 /\ spent' = 0
    BY TodayIsADay, PlaceSearchAssumption DEF SpendingInv, Restart
  <1>2. Today' = Today
    BY <1>1 DEF Today
  <1>3. /\ lives' \in [Days -> Nat] /\ lives'[Today] = lives[Today] + 1
        /\ \A d \in Days : d # Today => lives'[d] = lives[d]
    BY <1>1 DEF Restart
  <1>4. lookup' \in [Searches -> Lookup] /\ day' \in Days
    <2>1. 0 \in Days
      BY Division, PlaceSearchAssumption DEF Days
    <2> QED
      BY <1>1, <2>1 DEF Restart, Lookup
  <1>5. SpentToday' = 0
    BY <1>1 DEF SpentToday
  <1>6. lives[Today] \in Nat /\ called[Today] \in Nat
    BY <1>1
  <1>7. DailyCap > 0 => called[Today] <= DailyCap * lives[Today]
    BY <1>1 DEF SpendingInv, BudgetInv, BudgetHolds
  <1>8. DailyCap * lives[Today] \in Nat
        /\ DailyCap * (lives[Today] + 1) = DailyCap * lives[Today] + DailyCap
    BY <1>1, <1>6, Product
  <1>9. BudgetHolds'
    <2> SUFFICES ASSUME DailyCap > 0, NEW d \in Days PROVE called[d] <= DailyCap * lives'[d]
      BY <1>1 DEF BudgetHolds
    <2>1. CASE d = Today
      BY <1>1, <1>3, <1>6, <1>7, <1>8, <2>1
    <2>2. CASE d # Today
      BY <1>3, <2>2 DEF SpendingInv, BudgetInv, BudgetHolds
    <2> QED
      BY <2>1, <2>2
  <1>10. DailyCap > 0 => called[Today] <= DailyCap * (lives'[Today] - 1) + 0
    <2>1. lives'[Today] - 1 = lives[Today]
      BY <1>3, <1>6
    <2> QED
      BY <1>6, <1>7, <1>8, <2>1
  <1>11. \A d \in Days : lives'[d] > 0 /\ (d > Today => called[d] = 0)
    BY <1>1, <1>3, <1>6 DEF SpendingInv, BudgetInv
  <1>12. BudgetInv'
    BY <1>1, <1>2, <1>5, <1>9, <1>10, <1>11 DEF BudgetInv
  <1> QED
    BY <1>1, <1>3, <1>4, <1>12 DEF SpendingInv
-----------------------------------------------------------------------------
(* The daemon *)

LEMMA GatesStart == Init => GatesInv
  <1> SUFFICES ASSUME Init PROVE GatesInv
    OBVIOUS
  <1>1. ClientsInv
    <2>1. AppPasswordsTypeOK
      BY DEF Init, AppPasswordsInit, AppPasswordsTypeOK, Attempt
    <2>2. FileInv
      BY DEF Init, AppPasswordsInit, FileInv
    <2>3. AttemptInv /\ VerdictsAreHonest
      BY DEF Init, AppPasswordsInit, AttemptInv, VerdictsAreHonest
    <2>4. ThrottleTypeOK /\ ThrottleInv
      BY DEF Init, LimitsInit, ThrottleTypeOK, ThrottleInv
    <2> QED
      BY <2>1, <2>2, <2>3, <2>4 DEF ClientsInv
  <1>2. LimiterInv
    BY NothingLimiter DEF JustStarted, Init, LimitsInit, PlaceSearchInit
  <1>3. CacheInv
    <2>1. IsFiniteSet({}) /\ Cardinality({}) = 0
      BY FS_EmptySet
    <2>2. DOMAIN cache = {} /\ CacheCap \in Nat
      BY PlaceSearchAssumption DEF Init, PlaceSearchInit
    <2>3. ASSUME NEW K PROVE Cardinality(K \cap DOMAIN cache) <= CacheCap
      <3>1. K \cap DOMAIN cache = {}
        BY <2>2
      <3> QED
        BY <2>1, <2>2, <3>1
    <2> QED
      BY <2>1, <2>2, <2>3 DEF CacheInv
  <1>4. SpendingInv
    <2>1. /\ clock = 1 /\ day = 0 /\ spent = 0 /\ clock \in Nat \ {0} /\ clock <= MaxTime
          /\ called = [d \in Days |-> 0] /\ lives = [d \in Days |-> 1] /\ DailyCap \in Nat
      BY PlaceSearchAssumption DEF Init, LimitsInit, PlaceSearchInit
    <2>2. Today \in Nat /\ Today \in Days /\ 0 \in Days
      BY <2>1, TodayIsADay, Division, PlaceSearchAssumption DEF Days
    <2>3. lookup \in [Searches -> Lookup]
      BY DEF Init, PlaceSearchInit, Lookup
    <2>4. SpentToday = 0
      BY <2>1 DEF SpentToday
    <2>5. BudgetHolds
      BY <2>1, Product DEF BudgetHolds
    <2>6. DailyCap * (lives[Today] - 1) = 0
      BY <2>1, <2>2
    <2>7. BudgetInv
      BY <2>1, <2>2, <2>4, <2>5, <2>6 DEF BudgetInv
    <2> QED
      BY <2>1, <2>2, <2>3, <2>7 DEF SpendingInv
  <1>5. 0 \in 0 .. MaxRequests /\ 0 \in 0 .. MaxFaults
    BY GatesAssumption
  <1> QED
    BY <1>1, <1>2, <1>3, <1>4, <1>5, Parts DEF Init

LEMMA RestartInv ==
    ASSUME GatesInv, Restart PROVE GatesInv'
  <1>1. ClientsInv'
    BY ForgetClients, Parts
  <1>2. LimiterInv'
    <2>1. JustStarted'
      BY DEF Restart, JustStarted
    <2> QED
      BY <2>1, NothingLimiter, PTL
  <1>3. CacheInv'
    <2>1. IsFiniteSet({}) /\ Cardinality({}) = 0
      BY FS_EmptySet
    <2>2. DOMAIN cache' = {} /\ CacheCap \in Nat
      BY PlaceSearchAssumption DEF Restart
    <2>3. ASSUME NEW K PROVE Cardinality(K \cap DOMAIN cache') <= CacheCap
      <3>1. K \cap DOMAIN cache' = {}
        BY <2>2
      <3> QED
        BY <2>1, <2>2, <3>1
    <2> QED
      BY <2>1, <2>2, <2>3 DEF CacheInv
  <1>4. SpendingInv'
    BY RestartSpending, Parts
  <1>5. requests' = requests /\ faults' \in 0 .. MaxFaults
    BY GatesAssumption, Parts DEF Restart
  <1> QED
    BY <1>1, <1>2, <1>3, <1>4, <1>5, Parts, PartsAfter

\* What native clients do leaves place search alone, and the other way round.
LEMMA ClientStep ==
    ASSUME GatesInv, ClientsInv', UNCHANGED <<clock, hits, placeSearch>>,
           requests' \in 0 .. MaxRequests, faults' \in 0 .. MaxFaults
    PROVE  GatesInv'
  <1>1. LimiterInv'
    BY LimiterFrame, Parts DEF placeSearch
  <1>2. CacheInv'
    BY CacheFrame, Parts DEF placeSearch
  <1>3. SpendingInv'
    <2>1. lookup' \in [Searches -> Lookup]
      BY Parts DEF SpendingInv, placeSearch
    <2> QED
      BY <2>1, SpendingFrame, Parts DEF placeSearch
  <1> QED
    BY <1>1, <1>2, <1>3, PartsAfter

LEMMA BeginClients ==
    ASSUME ClientsInv, clock \in Nat,
           \/ \E t \in Tokens : Lock("create", t) \/ Lock("delete", t)
           \/ \E c \in Clients, a \in Addrs, t \in Tokens \cup {Bogus} : Challenge(c, a, t)
           \/ \E a \in Addrs : Session(a)
           \/ SetAccount
    PROVE  ClientsInv' /\ UNCHANGED <<clock, hits>>
  <1>1. CASE \E t \in Tokens : Lock("create", t) \/ Lock("delete", t)
    BY <1>1, LockInv DEF Lock, limits
  <1>2. CASE \E c \in Clients, a \in Addrs, t \in Tokens \cup {Bogus} : Challenge(c, a, t)
    BY <1>2, ChallengeInv DEF Challenge, limits
  <1>3. CASE \E a \in Addrs : Session(a)
    BY <1>3, SessionInv DEF Session
  <1>4. CASE SetAccount
    BY <1>4, SetAccountInv DEF SetAccount, limits
  <1> QED
    BY <1>1, <1>2, <1>3, <1>4

LEMMA BeginInv == ASSUME GatesInv, Begin PROVE GatesInv'
  <1>1. clock \in Nat /\ requests' \in 0 .. MaxRequests /\ faults' \in 0 .. MaxFaults
    BY GatesAssumption, Parts DEF Begin, SpendingInv
  <1>2. CASE UNCHANGED placeSearch
             /\ \/ \E t \in Tokens : Lock("create", t) \/ Lock("delete", t)
                \/ \E c \in Clients, a \in Addrs, t \in Tokens \cup {Bogus} : Challenge(c, a, t)
                \/ \E a \in Addrs : Session(a)
                \/ SetAccount
    BY <1>1, <1>2, BeginClients, ClientStep, Parts
  <1>3. CASE UNCHANGED appPasswords /\ \E s \in Searches, u \in Users, i \in Inputs : Ask(s, u, i)
    <2>1. PICK s \in Searches, u \in Users, i \in Inputs : Ask(s, u, i)
      BY <1>3
    <2>2. ClientsInv'
      BY <1>3, <2>1, ClientsFrame, Parts DEF Ask, limits
    <2>3. LimiterInv'
      BY <2>1, LimiterFrame, Parts DEF Ask, limits
    <2>4. CacheInv'
      BY <2>1, CacheFrame, Parts DEF Ask
    <2>5. SpendingInv'
      BY <2>1, AskSpending, Parts
    <2> QED
      BY <1>1, <2>2, <2>3, <2>4, <2>5, PartsAfter
  <1> QED
    BY <1>2, <1>3 DEF Begin

LEMMA GoOnInv == ASSUME GatesInv, GoOn PROVE GatesInv'
  <1>1. clock \in Nat /\ requests' \in 0 .. MaxRequests
    BY Parts DEF GoOn, SpendingInv
  <1>2. faults' \in 0 .. MaxFaults
    BY GatesAssumption, Parts DEF GoOn
  <1>3. CASE UNCHANGED placeSearch
             /\ (Save \/ SaveFails \/ \E c \in Clients : Verify(c) \/ Settle(c))
    <2>1. ClientsInv' /\ UNCHANGED <<clock, hits>>
      BY <1>1, <1>3, SaveInv, SaveFailsInv, VerifyInv, SettleInv, Parts
      DEF Save, SaveFails, Verify, Settle, limits
    <2> QED
      BY <1>1, <1>2, <1>3, <2>1, ClientStep
  <1>4. CASE UNCHANGED appPasswords
             /\ \E s \in Searches : Enter(s) \/ Charge(s) \/ Answer(s) \/ Fail(s)
    <2>1. PICK s \in Searches : Enter(s) \/ Charge(s) \/ Answer(s) \/ Fail(s)
      BY <1>4
    <2>2. UNCHANGED <<clock, fails>>
      BY <2>1 DEF Enter, Charge, Answer, Fail, limits
    <2>3. ClientsInv'
      BY <1>4, <2>2, ClientsFrame, Parts
    <2>4. lookup[s] \in Lookup
      BY Parts DEF SpendingInv
    <2>5. LimiterInv'
      <3>1. CASE Enter(s)
        <4>1. lookup[s].user \in Users /\ lookup[s].now \in Nat
          BY <2>4, <3>1 DEF Enter, Lookup
        <4> QED
          BY <3>1, <4>1, EnterLimiter, Parts DEF Enter, Newer
      <3>2. CASE Charge(s) \/ Answer(s) \/ Fail(s)
        BY <3>2, LimiterFrame, Parts DEF Charge, Answer, Fail, limits
      <3> QED
        BY <2>1, <3>1, <3>2
    <2>6. CacheInv'
      <3>1. CASE Answer(s)
        <4>1. lookup[s].input \in Inputs
          BY <2>4, <3>1 DEF Answer, Lookup
        <4> QED
          BY <1>1, <3>1, <4>1, StoredInv, Parts DEF Answer
      <3>2. CASE Enter(s) \/ Charge(s) \/ Fail(s)
        BY <3>2, CacheFrame, Parts DEF Enter, Charge, Fail
      <3> QED
        BY <2>1, <3>1, <3>2
    <2>7. SpendingInv'
      BY <2>1, EnterSpending, ChargeSpending, DoneSpending, Parts
    <2> QED
      BY <1>1, <1>2, <2>3, <2>5, <2>6, <2>7, PartsAfter
  <1> QED
    BY <1>3, <1>4 DEF GoOn

LEMMA TickInv == ASSUME GatesInv, Tick PROVE GatesInv'
  <1>1. ClientsInv'
    BY ClientsFrame, Parts DEF Tick
  <1>2. LimiterInv'
    BY LimiterFrame, Parts DEF Tick, placeSearch
  <1>3. CacheInv'
    BY CacheFrame, Parts DEF Tick, placeSearch
  <1>4. SpendingInv'
    BY TickSpending, Parts
  <1> QED
    BY <1>1, <1>2, <1>3, <1>4, Parts, PartsAfter DEF Tick

LEMMA GatesStep == GatesInv /\ [Next]_vars => GatesInv'
  <1> SUFFICES ASSUME GatesInv, [Next]_vars PROVE GatesInv'
    OBVIOUS
  <1>1. CASE UNCHANGED vars
    <2>1. ClientsInv'
      BY <1>1, ClientsFrame, Parts DEF vars, limits
    <2> QED
      BY <1>1, <2>1, ClientStep, Parts DEF vars, limits
  <1> QED
    BY <1>1, TickInv, RestartInv, BeginInv, GoOnInv DEF Next

\* The inductive invariant of the two gates holds in every behaviour.
THEOREM GatesSafe == Spec => []GatesInv
  BY GatesStart, GatesStep, PTL DEF Spec

\* Types of the limiters, the app passwords and place search: no cache, and no
\* account's timestamps, outgrow their limit (rateLimiter.allow, Service.suggPut).
THEOREM GatesTypeOK == Spec => []TypeOK
  <1>1. GatesInv => TypeOK
    BY DEF GatesInv
  <1> QED
    BY <1>1, GatesSafe, PTL

\* A native client is told what was true while it asked, and is locked out only by
\* rejections (authDav, Store.Verify, throttle), whatever the interleaving of
\* requests, changes of passwords and accounts, failed reads and restarts.
THEOREM GatesVerdictsAreHonest == Spec => []VerdictsAreHonest
  <1>1. GatesInv => VerdictsAreHonest
    BY DEF GatesInv
  <1> QED
    BY <1>1, GatesSafe, PTL

\* The upstream calls of a day never exceed the cap, once per life of the daemon
\* (Service.charge), whatever the number of lookups under way; and no window, wherever it
\* begins, admits more than the limit (rateLimiter.allow), for any window, limit and
\* threshold of the sweep, unless a lookup entered the limiter in it with a reading of
\* the clock older than another one's.
THEOREM GatesCeilingsHold == Spec => []CeilingsHold
  <1>1. GatesInv => BudgetHolds
    BY DEF GatesInv, BudgetInv
  <1>2. GatesInv => RateHolds
    BY Parts DEF LimiterInv, RateInv
  <1>3. GatesInv => CeilingsHold
    BY <1>1, <1>2 DEF CeilingsHold
  <1> QED
    BY <1>3, GatesSafe, PTL
=============================================================================
