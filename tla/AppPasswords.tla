---------------------------- MODULE AppPasswords ----------------------------
(***************************************************************************)
(* App passwords (backend/internal/apppass/apppass.go) and the             *)
(* authentication of native clients with them (api.go authDav, auth.go     *)
(* AppUser).  The passwords of an account are one file, replaced by rename *)
(* under a lock that its readers do not take; no account affects another   *)
(* one's file, so one account stands for all.  Addresses do matter to each *)
(* other (the throttle's map).                                             *)
(***************************************************************************)
EXTENDS Limits

CONSTANTS
    Tokens,     \* app passwords that can be minted, each at most once
    Bogus,      \* a password that never was one
    Clients     \* native clients, each with one request at a time

VARIABLES
    file,       \* the tokens (their hashes) in the account's file
    change,     \* who holds Store.mu: the token it adds or removes and what it loaded
    account,    \* whether the account exists
    attempt,    \* per client, the request in authDav, or its outcome
    life,       \* history: what became of each token
    streak      \* history: rejections per address in this life since the last acceptance

appPasswords == <<file, change, account, attempt, life, streak>>

Free     == [op |-> "none"]
Unread   == [ok |-> FALSE]
Read(S)  == [ok |-> TRUE, list |-> S]
Evidence == [addr : Addrs, tok : Tokens \cup {Bogus},
             valid : SUBSET BOOLEAN, exists : SUBSET BOOLEAN, io : BOOLEAN]
Attempt  == {[pc |-> "idle"]}
            \cup [pc : {"verify"}, ev : Evidence]
            \cup [pc : {"settle"}, ev : Evidence, match : BOOLEAN]
            \cup [pc : {"accepted", "refused"}, ev : Evidence]
            \cup [pc : {"later"}, earned : BOOLEAN]

AppPasswordsTypeOK ==
    /\ file \subseteq Tokens
    /\ change \in {Free} \cup [op : {"create", "delete"}, tok : Tokens, list : SUBSET Tokens]
    /\ account \in BOOLEAN
    /\ attempt \in [Clients -> Attempt]
    /\ life \in [Tokens -> {"unborn", "valid", "revoked"}]
    /\ streak \in [Addrs -> Nat]

AppPasswordsInit ==
    /\ file = {}
    /\ change = Free
    /\ account = TRUE
    /\ attempt = [c \in Clients |-> [pc |-> "idle"]]
    /\ life = [t \in Tokens |-> "unborn"]
    /\ streak = [a \in Addrs |-> 0]

-----------------------------------------------------------------------------
IsValid(l, t) == t \in Tokens /\ l[t] = "valid"

\* What a request under way may rest on grows with every change.
Witness(at, l, acc) ==
    [c \in Clients |->
        IF at[c].pc \in {"verify", "settle"}
        THEN [at[c] EXCEPT !.ev.valid  = @ \cup {IsValid(l, at[c].ev.tok)},
                           !.ev.exists = @ \cup {acc}]
        ELSE at[c]]

\* MUTANT of Loads: a file that cannot be read counts as one that is not there.
LoadsOrEmpty == {Read(file), Read({})}

\* load: the list, or an error that ends the request.
Loads == {Read(file), Unread}

\* Create and Delete: under the lock, the list is read ...
Lock(op, t) ==
    /\ change = Free
    /\ life[t] = IF op = "create" THEN "unborn" ELSE "valid"
    /\ \E l \in Loads : l.ok /\ change' = [op |-> op, tok |-> t, list |-> l.list]
    /\ UNCHANGED <<limits, file, account, attempt, life, streak>>

\* ... and written to a temporary file that takes the old one's place; only then is
\* the token handed out, or the deletion answered.
Save ==
    /\ change # Free
    /\ file' = IF change.op = "create" THEN change.list \cup {change.tok}
                                       ELSE change.list \ {change.tok}
    /\ life' = [life EXCEPT ![change.tok] = IF change.op = "create" THEN "valid" ELSE "revoked"]
    /\ attempt' = Witness(attempt, life', account)
    /\ change' = Free
    /\ UNCHANGED <<limits, account, streak>>

\* The write or the rename fails: the old file stays, the request ends with an error.
SaveFails ==
    /\ change # Free
    /\ change' = Free
    /\ UNCHANGED <<limits, file, account, attempt, life, streak>>

\* The account is removed from the system, or created (external).
SetAccount ==
    /\ account' = ~account
    /\ attempt' = Witness(attempt, life, account')
    /\ UNCHANGED <<limits, file, change, life, streak>>

-----------------------------------------------------------------------------
\* authDav: an address that is locked out is sent away before anything is looked at.
Challenge(c, a, t) ==
    /\ attempt[c].pc \notin {"verify", "settle"}
    /\ t \in Tokens => life[t] # "unborn"
    /\ attempt' = [attempt EXCEPT ![c] =
           IF Blocked(a) THEN [pc |-> "later", earned |-> streak[a] >= FreeFails]
           ELSE [pc |-> "verify",
                 ev |-> [addr |-> a, tok |-> t, io |-> FALSE, exists |-> {account},
                         valid |-> {IsValid(life, t)}]]]
    /\ UNCHANGED <<limits, file, change, account, life, streak>>

\* Verify: whatever the file is at this moment; an error is a mismatch.
Verify(c) ==
    /\ attempt[c].pc = "verify"
    /\ \E l \in Loads :
           attempt' = [attempt EXCEPT ![c] =
               [pc |-> "settle", match |-> l.ok /\ @.ev.tok \in l.list,
                ev |-> [@.ev EXCEPT !.io = ~l.ok]]]
    /\ UNCHANGED <<limits, file, change, account, life, streak>>

\* AppUser's look at the account, and the throttle's verdict on the address.
Settle(c) ==
    LET a == attempt[c].ev.addr
        Outcome(pc) == attempt' = [attempt EXCEPT ![c] = [pc |-> pc, ev |-> @.ev]]
    IN  /\ attempt[c].pc = "settle"
        /\ \/ /\ attempt[c].match /\ account
              /\ Outcome("accepted")
              /\ fails' = Passed(a)
              /\ streak' = [streak EXCEPT ![a] = 0]
           \/ /\ ~(attempt[c].match /\ account)
              /\ Outcome("refused")
              /\ fails' = Failed(a)
              /\ streak' = [streak EXCEPT ![a] = @ + 1]
        /\ UNCHANGED <<clock, hits, file, change, account, life>>

\* A browser session from the same address clears it as well.
Session(a) ==
    /\ ~Blocked(a)
    /\ account
    /\ fails' = Passed(a)
    /\ streak' = [streak EXCEPT ![a] = 0]
    /\ UNCHANGED <<clock, hits, file, change, account, attempt, life>>
=============================================================================
