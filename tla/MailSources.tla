---------------------------- MODULE MailSources -----------------------------
(***************************************************************************)
(* Where a registration gets its address from and reads its mail: the pool *)
(* of mail sources (EmailPool.allocate, wait_for_mail in                   *)
(* api/email_pool.py) and the adapters in api/email_sources, each with     *)
(* what its service may answer.  There is one registration at a time       *)
(* (account_pool/engine.py).  What becomes of the address is               *)
(* Registration's.                                                         *)
(***************************************************************************)
EXTENDS Integers, Sequences, SequencesExt, FiniteSets

CONSTANTS LineUps,   \* the sources of a pool, as sequences of their kinds
          Names,     \* addresses the services may give
          Recorded,  \* those in email_registry when the process starts
          Risky,     \* those of a domain that has failed too often
          Attempts,  \* 15
          Gap,       \* EMAIL_CREATE_MIN_INTERVAL
          Polls,     \* polls in the time a mail is waited for
          MaxFails   \* bound: failures of a source that are counted

\* A pool has sources, and an allocation tries often enough to ask each of them.
ASSUME MailAssumption ==
    /\ Attempts \in Nat /\ \A l \in LineUps : l \in Seq(STRING) /\ Len(l) \in 1..Attempts
    /\ Recorded \subseteq Names /\ Gap \in Nat /\ Polls \in Nat /\ MaxFails \in Nat

VARIABLES kind,    \* of a source
          rest,    \* time to the end of its cooldown
          missed, wins,
          gap,     \* time to the next mailbox of the services that limit it
          listed,  \* its list of domains is fresh
          spent,   \* EmailPool._used
          ask,     \* an allocation: sources in the order they are asked, those that have disappointed
          box      \* the mailbox that was given, and its mail

mailSources == <<kind, rest, missed, wins, gap, listed>>
mailVars == <<mailSources, spent, ask, box>>

S == DOMAIN kind
NoBox == [from |-> 0, key |-> FALSE, mail |-> FALSE, polls |-> 0, got |-> "nothing"]
NoAllocation == [at |-> "idle", list |-> <<>>, n |-> 0, tried |-> {}]

MailInit ==
    /\ kind \in LineUps
    /\ rest = [s \in S |-> 0] /\ missed = [s \in S |-> 0] /\ wins = [s \in S |-> 0]
    /\ gap = [s \in S |-> 0] /\ listed = [s \in S |-> FALSE]
    /\ spent = Recorded
    /\ ask = NoAllocation /\ box = NoBox

Priority == [imap |-> 95, tempmail |-> 95, tempmailio |-> 95, mailtm |-> 80, mailgw |-> 75,
             do22 |-> 75, guerrilla |-> 75, temptf |-> 40, linshi |-> 10]

\* BaseMailSource.score
Score(s) ==
    IF rest[s] > 0 THEN Priority[kind[s]]
    ELSE 10 * Priority[kind[s]] + (50 * (wins[s] + 1)) \div (wins[s] + missed[s] + 2) - 10 * missed[s]

Before(s, t) == Score(s) > Score(t) \/ (Score(s) = Score(t) /\ s < t)
Awake == {s \in S : rest[s] = 0}
Asking(list) == [NoAllocation EXCEPT !.at = "asking", !.list = list]
Asked == IF Awake = {} THEN S ELSE Awake  \* nobody awake: all of them
Ranked(set) ==
    {list \in [1..Cardinality(set) -> set] : \A i, j \in DOMAIN list : i < j => Before(list[i], list[j])}

\* allocate: who is asked, and in which order, is settled once.
Allocate ==
    /\ ask.at = "idle"
    /\ \E list \in Ranked(Asked) : ask' = Asking(list)
    /\ box' = NoBox
    /\ UNCHANGED <<mailSources, spent>>

\* mutant: always the best of them
FirstOnly == ask.list[1]

\* One source after the other, and again from the first, resting or not.
Turn == ask.list[(ask.n % Len(ask.list)) + 1]

Asks(s, k) == ask.at = "asking" /\ ask.n < Attempts /\ s = Turn /\ kind[s] = k
Disappoints(s) == ask' = [ask EXCEPT !.n = @ + 1, !.tried = @ \cup {s}]

\* mark_failure: a cooldown that grows with the failures, whatever was left.
Counted(n) == IF n > MaxFails THEN MaxFails ELSE n
RestAfter(base, n) == base + n - 1

\* new_address raises
Raises(s) ==
    /\ Disappoints(s)
    /\ missed' = [missed EXCEPT ![s] = Counted(@ + 1)]
    /\ rest' = [rest EXCEPT ![s] = RestAfter(1, missed'[s])]
    /\ UNCHANGED <<kind, wins, spent, box>>

\* ... after the adapter has marked the failure itself, for a 429: the pool
\* marks it again, with the cooldown of any other failure.
Limited(s) ==
    /\ Disappoints(s)
    /\ missed' = [missed EXCEPT ![s] = Counted(@ + 2)]
    /\ rest' = [rest EXCEPT ![s] = RestAfter(1, missed'[s])]
    /\ UNCHANGED <<kind, wins, spent, box>>

\* An address: one of a bad domain or used before is passed over.
Gives(s, key) ==
    /\ \E a \in Names :
          IF a \in spent \cup Risky
          THEN Disappoints(s) /\ UNCHANGED <<rest, missed, wins, spent, box>>
          ELSE /\ ask' = [ask EXCEPT !.at = "given"]
               /\ wins' = [wins EXCEPT ![s] = Counted(@ + 1)]
               /\ missed' = [missed EXCEPT ![s] = IF @ = 0 THEN 0 ELSE @ - 1]
               /\ spent' = spent \cup {a}
               /\ box' = [NoBox EXCEPT !.from = s, !.key = key]
               /\ UNCHANGED rest
    /\ UNCHANGED kind

-----------------------------------------------------------------------------
(* new_address of each adapter                                             *)

\* An address is made up here, of a domain of ours, or of a list.
Imap(s) == Asks(s, "imap") /\ Gives(s, TRUE) /\ UNCHANGED <<gap, listed>>
Linshi(s) == Asks(s, "linshi") /\ Gives(s, TRUE) /\ UNCHANGED <<gap, listed>>
TempTf(s) == Asks(s, "temptf") /\ Gives(s, TRUE) /\ UNCHANGED <<gap, listed>>

\* The list of domains is fetched once an hour; without one there is no address.
MailTm(s) ==
    /\ Asks(s, "mailtm")
    /\ \/ listed' = [listed EXCEPT ![s] = TRUE] /\ (Gives(s, TRUE) \/ Raises(s) \/ Limited(s))
       \/ ~listed[s] /\ UNCHANGED listed /\ Raises(s)
    /\ UNCHANGED gap

\* Without a list, an old one or a fixed domain is taken.
MailGw(s) ==
    /\ Asks(s, "mailgw")
    /\ listed' \in {listed, [listed EXCEPT ![s] = TRUE]}
    /\ Gives(s, TRUE) \/ Raises(s) \/ Limited(s)
    /\ UNCHANGED gap

Guerrilla(s) ==
    /\ Asks(s, "guerrilla")
    /\ Gives(s, TRUE) \/ Raises(s) \/ Limited(s)
    /\ UNCHANGED <<gap, listed>>

\* A mailbox of a domain that is allowed, out of fifteen; its key is not checked.
Do22(s) ==
    /\ Asks(s, "do22")
    /\ Raises(s) \/ \E key \in BOOLEAN : Gives(s, key)
    /\ UNCHANGED <<gap, listed>>

\* The service is asked once in a while; its 429 waits longer than others.
Spaced(s) == gap[s] = 0 /\ gap' = [gap EXCEPT ![s] = Gap] /\ UNCHANGED listed
TempMail(s) ==
    /\ Asks(s, "tempmail") /\ Spaced(s)
    /\ Gives(s, TRUE) \/ Raises(s) \/ Limited(s)
TempMailIo(s) ==
    /\ Asks(s, "tempmailio") /\ Spaced(s)
    /\ Gives(s, TRUE) \/ Raises(s) \/ Limited(s)

\* Fifteen times no usable address
NoneLeft ==
    /\ ask.at = "asking" /\ ask.n = Attempts
    /\ ask' = [ask EXCEPT !.at = "failed"]
    /\ UNCHANGED <<mailSources, spent, box>>

-----------------------------------------------------------------------------
(* fetch_mails of each adapter: the mail as it was sent, its entry in a    *)
(* list without the body, or nothing when the request fails.               *)

ImapForms == {"whole"}                 \* of ours, found by its addressee
LinshiForms == {"whole"}
TempTfForms == {"whole"}
TempMailIoForms == {"whole"}
MailTmForms == {"whole", "entry"}      \* the entry when the mail itself fails
TempMailForms == {"whole", "entry"}
Do22Forms == {"whole", "entry"}
GuerrillaForms == {"whole", "entry"}   \* the entry may be long enough
MailGwForms == {"entry"}               \* only the list is asked

Forms == [imap |-> ImapForms, linshi |-> LinshiForms, temptf |-> TempTfForms,
          tempmailio |-> TempMailIoForms, mailtm |-> MailTmForms, tempmail |-> TempMailForms,
          do22 |-> Do22Forms, guerrilla |-> GuerrillaForms, mailgw |-> MailGwForms]

\* The site has sent the mail.
Arrives ==
    /\ ask.at = "given" /\ ~box.mail /\ box.got = "nothing"
    /\ box' = [box EXCEPT !.mail = TRUE]
    /\ UNCHANGED <<mailSources, spent, ask>>

\* A poll of wait_for_mail: without a key there is nothing to read.
Poll ==
    /\ ask.at = "given" /\ box.got = "nothing" /\ box.polls < Polls
    /\ \/ /\ box.mail /\ box.key
          /\ \E form \in Forms[kind[box.from]] : box' = [box EXCEPT !.got = form]
          /\ wins' = [wins EXCEPT ![box.from] = Counted(@ + 1)]
          /\ missed' = [missed EXCEPT ![box.from] = IF @ = 0 THEN 0 ELSE @ - 1]
       \/ box' = [box EXCEPT !.polls = @ + 1] /\ UNCHANGED <<wins, missed>>
    /\ UNCHANGED <<kind, rest, gap, listed, spent, ask>>

\* The registration goes on with a mail or without, or has ended without an
\* address.  A link is found in a whole mail only.
AllocationEnds ==
    /\ \/ ask.at = "given" /\ (box.got # "nothing" \/ box.polls = Polls)
       \/ ask.at = "failed"
    /\ ask' = NoAllocation /\ box' = NoBox
    /\ UNCHANGED <<mailSources, spent>>

\* _load_used: the addresses that were recorded; the others are free again.
MailRestarts ==
    /\ \E kept \in SUBSET spent : Recorded \subseteq kept /\ spent' = kept
    /\ rest' = [s \in S |-> 0] /\ missed' = [s \in S |-> 0] /\ wins' = [s \in S |-> 0]
    /\ gap' = [s \in S |-> 0] /\ listed' = [s \in S |-> FALSE]
    /\ ask' = NoAllocation /\ box' = NoBox /\ UNCHANGED kind

Less(n) == IF n = 0 THEN 0 ELSE n - 1
Tick ==
    /\ \E s \in S : rest[s] > 0 \/ gap[s] > 0
    /\ rest' = [s \in S |-> Less(rest[s])] /\ gap' = [s \in S |-> Less(gap[s])]
    /\ UNCHANGED <<kind, missed, wins, listed, spent, ask, box>>

\* An hour after the list was fetched
ListAges(s) ==
    /\ listed[s] /\ ask.at = "idle" /\ listed' = [listed EXCEPT ![s] = FALSE]
    /\ UNCHANGED <<kind, rest, missed, wins, gap, spent, ask, box>>

NewAddress(s) ==
    \/ Imap(s) \/ Linshi(s) \/ TempTf(s) \/ MailTm(s) \/ MailGw(s)
    \/ Guerrilla(s) \/ Do22(s) \/ TempMail(s) \/ TempMailIo(s)

MailNext ==
    \/ Allocate \/ NoneLeft \/ Arrives \/ Poll \/ AllocationEnds \/ MailRestarts \/ Tick
    \/ \E s \in S : NewAddress(s) \/ ListAges(s)

MailSpec == MailInit /\ [][MailNext]_mailVars

-----------------------------------------------------------------------------
\* Types of the sources, the allocation and the mailbox (api/email_pool.py).
MailTypes ==
    /\ \A s \in S : missed[s] \in 0..MaxFails /\ wins[s] \in 0..MaxFails /\ gap[s] \in 0..Gap
    /\ \A s \in S : rest[s] \in 0..MaxFails /\ listed[s] \in BOOLEAN
    /\ spent \subseteq Names
    /\ ask.at \in {"idle", "asking", "given", "failed"} /\ ask.n \in 0..Attempts
    /\ box.from \in S \cup {0} /\ box.polls \in 0..Polls

\* "自动退避并平滑切换到备用源" (api/email_pool.py:23): an allocation fails only after
\* every source it could ask has disappointed it: one that fails, repeats an address
\* or has a bad domain keeps nobody from the others.
FailsAfterAll == ask.at = "failed" => ToSet(ask.list) \subseteq ask.tried
=============================================================================
