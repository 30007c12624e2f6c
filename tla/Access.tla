------------------------------- MODULE Access -------------------------------
(***************************************************************************)
(* Logging in: the sliding window of security/rate_limit.py that the       *)
(* middleware asks before every request, and the handler of                *)
(* POST /auth/token with its count of failed logins.  The middleware runs  *)
(* on the event loop of one of the server's processes, so that allow is    *)
(* one step; the handler runs in a thread and reads, records and commits   *)
(* in steps of its own.                                                    *)
(*                                                                         *)
(* Simplifications: time is in whole ticks; a user who does not exist, or  *)
(* is not active, changes nothing and is left out, as is a body that is    *)
(* too large, which is refused before it is counted.                       *)
(***************************************************************************)
EXTENDS Integers, Sequences, FiniteSets, Nullable

CONSTANTS
    Clients,     \* keys of the limiter: an address, or the end of a token
    Usernames,
    Servers,     \* processes of the server, each with a limiter of its own
    Handlers,    \* threads that handle logins
    ServerOf,    \* [Handlers -> Servers]
    LoginLimit,  \* login_rate_limit_per_minute
    Window,      \* the minute
    MaxFailed,   \* MAX_FAILED
    MaxTime      \* bound of the clock

ASSUME AccessAssumption ==
    /\ IsFiniteSet(Handlers)
    /\ ServerOf \in [Handlers -> Servers]
    /\ LoginLimit \in Nat \ {0} /\ Window \in Nat /\ MaxFailed \in Nat \ {0} /\ MaxTime \in Nat
    /\ None \notin Usernames

VARIABLES
    time,
    hits,       \* [Servers -> [Clients -> login_limiter._hits]]
    failed,     \* [Usernames -> committed failed_logins]
    login,      \* [Handlers -> the request it handles]
    events,     \* [Usernames -> audit events login_failed and login_succeeded]
    admitted,   \* history: [Servers -> [Clients -> when allow said yes]]
    outcomes,   \* history: [Usernames -> committed logins, and failures since the last success]
    overlapped  \* history: users for whom two logins were handled at a time

accessVars == <<time, hits, failed, login, events, admitted, outcomes, overlapped>>

Login == [pc : {"idle", "admitted", "checked", "recorded"}, user : Usernames \cup {None},
          right : BOOLEAN, read : 0..MaxFailed]

NoLogin == [pc |-> "idle", user |-> None, right |-> FALSE, read |-> 0]

AccessTypeOK ==
    /\ time \in 0..MaxTime
    /\ hits \in [Servers -> [Clients -> Seq(0..MaxTime)]]
    /\ admitted \in [Servers -> [Clients -> Seq(0..MaxTime)]]
    /\ failed \in [Usernames -> 0..MaxFailed]
    /\ login \in [Handlers -> Login]
    /\ events \in [Usernames -> [failed : Nat, succeeded : Nat]]
    /\ outcomes \in [Usernames -> [failed : Nat, succeeded : Nat, streak : Nat]]
    /\ overlapped \subseteq Usernames
-----------------------------------------------------------------------------
(* InMemoryRateLimiter.allow                                               *)

Outside(t) == time - t > Window

(* The queue without the hits at its head that are outside the window.     *)
Kept(q) ==
    LET old == {i \in 1..Len(q) : \A j \in 1..i : Outside(q[j])}
    IN  SubSeq(q, Cardinality(old) + 1, Len(q))

Hits(t, c) == Kept(hits[ServerOf[t]][c])

(* Mutation: the limit compared the other way round.                       *)
HasRoomMore(t, c) == Len(Hits(t, c)) <= LoginLimit

HasRoom(t, c) == Len(Hits(t, c)) < LoginLimit

Admit(t, c) ==
    LET p == ServerOf[t] IN
    /\ login[t].pc = "idle"
    /\ HasRoom(t, c)
    /\ hits' = [hits EXCEPT ![p][c] = Append(Hits(t, c), time)]
    /\ admitted' = [admitted EXCEPT ![p][c] = Append(@, time)]
    /\ login' = [login EXCEPT ![t].pc = "admitted"]
    /\ UNCHANGED <<time, failed, events, outcomes, overlapped>>

(* 429: only what has left the window is forgotten.                        *)
Limit(t, c) ==
    /\ login[t].pc = "idle"
    /\ ~ HasRoom(t, c)
    /\ hits' = [hits EXCEPT ![ServerOf[t]][c] = Hits(t, c)]
    /\ UNCHANGED <<time, failed, login, events, admitted, outcomes, overlapped>>

ClockTick ==
    /\ time < MaxTime
    /\ time' = time + 1
    /\ UNCHANGED <<hits, failed, login, events, admitted, outcomes, overlapped>>
-----------------------------------------------------------------------------
(* login                                                                   *)

limiterVars == <<time, hits, admitted>>

Overlaps(t, u) == \E s \in Handlers \ {t} : login[s].user = u

Locked(u) == failed[u] >= MaxFailed

(* The user's row is read and the password compared with its hash.         *)
Compare(t, u, right) ==
    /\ login[t].pc = "admitted"
    /\ ~ Locked(u)
    /\ login' = [login EXCEPT ![t] = [pc |-> "checked", user |-> u, right |-> right,
                                      read |-> failed[u]]]
    /\ overlapped' = IF Overlaps(t, u) THEN overlapped \cup {u} ELSE overlapped
    /\ UNCHANGED <<failed, events, outcomes, limiterVars>>

(* 423.                                                                    *)
RefuseLocked(t, u) ==
    /\ login[t].pc = "admitted"
    /\ Locked(u)
    /\ login' = [login EXCEPT ![t] = NoLogin]
    /\ UNCHANGED <<failed, events, outcomes, overlapped, limiterVars>>

(* audit.record, on a connection of its own, before the commit.            *)
Record(t) ==
    LET u == login[t].user IN
    /\ login[t].pc = "checked"
    /\ events' = IF login[t].right THEN [events EXCEPT ![u].succeeded = @ + 1]
                 ELSE [events EXCEPT ![u].failed = @ + 1]
    /\ login' = [login EXCEPT ![t].pc = "recorded"]
    /\ UNCHANGED <<failed, outcomes, overlapped, limiterVars>>

(* Mutation: the count survives a successful login.                        *)
NewCountKept(t) == IF login[t].right THEN failed[login[t].user] ELSE login[t].read + 1

(* The count is set to what was computed from the row as it was read; an   *)
(* attribute set to the value it has is not written.                       *)
NewCount(t) ==
    IF ~ login[t].right THEN login[t].read + 1
    ELSE IF login[t].read = 0 THEN failed[login[t].user] ELSE 0

(* Mutation: the commit comes before the event.                            *)
MayCommitEarly(t) == login[t].pc \in {"checked", "recorded"}

MayCommit(t) == login[t].pc = "recorded"

CommitLogin(t) ==
    LET u == login[t].user IN
    /\ MayCommit(t)
    /\ failed' = [failed EXCEPT ![u] = NewCount(t)]
    /\ outcomes' = IF login[t].right
                   THEN [outcomes EXCEPT ![u].succeeded = @ + 1, ![u].streak = 0]
                   ELSE [outcomes EXCEPT ![u].failed = @ + 1, ![u].streak = @ + 1]
    /\ login' = [login EXCEPT ![t] = NoLogin]
    /\ UNCHANGED <<events, overlapped, limiterVars>>

(* An exception, or a client that is gone: the session is closed.          *)
LoginFails(t) ==
    /\ login[t].pc # "idle"
    /\ login' = [login EXCEPT ![t] = NoLogin]
    /\ UNCHANGED <<failed, events, outcomes, overlapped, limiterVars>>
-----------------------------------------------------------------------------
AccessInit ==
    /\ time = 0
    /\ hits = [p \in Servers |-> [c \in Clients |-> <<>>]]
    /\ admitted = [p \in Servers |-> [c \in Clients |-> <<>>]]
    /\ failed = [u \in Usernames |-> 0]
    /\ login = [t \in Handlers |-> NoLogin]
    /\ events = [u \in Usernames |-> [failed |-> 0, succeeded |-> 0]]
    /\ outcomes = [u \in Usernames |-> [failed |-> 0, succeeded |-> 0, streak |-> 0]]
    /\ overlapped = {}

LoginStep(t) ==
    \/ \E c \in Clients : Admit(t, c) \/ Limit(t, c)
    \/ \E u \in Usernames : RefuseLocked(t, u) \/ \E right \in BOOLEAN : Compare(t, u, right)
    \/ Record(t) \/ CommitLogin(t) \/ LoginFails(t)

AccessNext == ClockTick \/ \E t \in Handlers : LoginStep(t)

AccessSpec == AccessInit /\ [][AccessNext]_accessVars
-----------------------------------------------------------------------------
(* Of the requests of a client that a process has let through, any         *)
(* LoginLimit + 1 in a row take longer than the window, and what counts    *)
(* against the client are those within the window and no others: one that  *)
(* keeps to its limit is never refused, although the limiter forgets hits  *)
(* as it goes (allow).                                                     *)
WindowLimited ==
    \A p \in Servers, c \in Clients :
       LET log == admitted[p][c]
       IN  /\ \A i \in 1..Len(log) :
                 i + LoginLimit <= Len(log) => log[i + LoginLimit] - log[i] > Window
           /\ Len(Kept(hits[p][c])) = Cardinality({i \in 1..Len(log) : time - log[i] <= Window})

(* As long as the logins of a user are handled one after the other, the    *)
(* count is that of the failures since the last success, and no password   *)
(* is compared once it has reached the limit (login).                      *)
LockoutUnlessOverlapped ==
    \A u \in Usernames \ overlapped :
       failed[u] = outcomes[u].streak /\ outcomes[u].streak <= MaxFailed

(* No count changes, and no token is issued, without its audit event,      *)
(* whatever fails in between (login).                                      *)
LoginsAudited ==
    \A u \in Usernames : /\ outcomes[u].failed <= events[u].failed
                     /\ outcomes[u].succeeded <= events[u].succeeded
-----------------------------------------------------------------------------
(* Why it is so: the handlers between their audit event and their commit,  *)
(* and what the handler of a login knows of its user.                      *)
Recorded(u) == {t \in Handlers : login[t].pc = "recorded" /\ login[t].user = u}

FailuresRecorded(u) == {t \in Recorded(u) : ~ login[t].right}

SuccessesRecorded(u) == {t \in Recorded(u) : login[t].right}

EventsAhead ==
    \A u \in Usernames :
       /\ outcomes[u].failed + Cardinality(FailuresRecorded(u)) <= events[u].failed
       /\ outcomes[u].succeeded + Cardinality(SuccessesRecorded(u)) <= events[u].succeeded

LoginOk(t) ==
    LET x == login[t] IN
    /\ x.user # None <=> x.pc \in {"checked", "recorded"}
    /\ x.user # None => x.read < MaxFailed
    /\ x.user \in Usernames \ overlapped =>
          x.read = failed[x.user] /\ \A s \in Handlers \ {t} : login[s].user # x.user

LoginInv ==
    AccessTypeOK /\ EventsAhead /\ LockoutUnlessOverlapped /\ \A t \in Handlers : LoginOk(t)

(* The limiter has forgotten the first hits of those it let through, all   *)
(* of them outside the window, and no others.                              *)
WindowOk(p, c) ==
    LET log == admitted[p][c]
        q == hits[p][c]
        forgotten == Len(log) - Len(q)
    IN  /\ forgotten >= 0
        /\ \A i \in 1..Len(log) : log[i] <= time /\ \A j \in 1..i : log[j] <= log[i]
        /\ \A i \in 1..Len(q) : q[i] = log[forgotten + i]
        /\ \A i \in 1..forgotten : Outside(log[i])
        /\ \A i \in 1..Len(log) :
              i + LoginLimit <= Len(log) => log[i + LoginLimit] - log[i] > Window

AccessInv == LoginInv /\ \A p \in Servers, c \in Clients : WindowOk(p, c)
=============================================================================
