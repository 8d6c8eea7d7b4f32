-------------------------------- MODULE Auth --------------------------------
(***************************************************************************)
(* Accounts and sessions of the server: register, login_password,          *)
(* login_otp, logout and the check every other handler makes of its token  *)
(* (server/main.py), behind the rate limiter.  The handlers run on worker  *)
(* threads, each database statement a step of its own where another thread *)
(* can come between.  Passwords, one-time codes and tokens are not secrets *)
(* here: a request has the right one or not.  A row of login_challenges or *)
(* sessions is named by its id; neither table ever loses a row.            *)
(***************************************************************************)
EXTENDS RateLimiter

CONSTANTS Users,                        \* normalised usernames
          ChallengeTTL, SessionTTL,
          MaxChallenges, MaxSessions    \* bounds on the rows there are

AuthKeys == ({"register", "login_password"} \X Users)
            \cup ({"login_otp"} \X (1..MaxChallenges))

ASSUME AuthAssumption ==
    /\ AuthKeys \subseteq Keys
    /\ ChallengeTTL \in Nat \ {0} /\ SessionTTL \in Nat \ {0}
    /\ MaxChallenges \in Nat /\ MaxSessions \in Nat

VARIABLES users,      \* rows of users
          challenges, \* rows of login_challenges, by id
          sessions,   \* rows of sessions, by id
          task,       \* handler a thread runs
          welcomed,   \* history: how many registrations of a name have succeeded
          overlapped  \* history: challenges two handlers had read as unused

tables == <<users, challenges, sessions>>
history == <<welcomed, overlapped>>
authVars == <<clock, limiterVars, tables, task, history>>

Idle == [op |-> "idle"]
Tasks == [op : {"register", "login_password"}, of : Users, at : {"limiter", "read", "write"}]
         \cup [op : {"login_otp", "logout"}, of : Nat, at : {"limiter", "read", "write"}]
Challenges == [user : Users, expires : Nat, used : BOOLEAN]
SessionRows == [user : Users, challenge : Nat, expires : Nat, revoked : BOOLEAN]

\* Mutant: the SELECT does not ask for used_at IS NULL.
Unexpired(c) == challenges[c].expires > clock

Usable(c) == ~challenges[c].used /\ challenges[c].expires > clock

\* get_current_user finds the session.
Live(s) == ~sessions[s].revoked /\ sessions[s].expires > clock

SetTask(t, to) == task' = [task EXCEPT ![t] = to]
At(t, op, step) == task[t] # Idle /\ task[t].op = op /\ task[t].at = step
Done(t) == SetTask(t, Idle)
Goto(t, step) == SetTask(t, [task[t] EXCEPT !.at = step])

(* require_rate_limit *)

Request(t, op, of) ==
    /\ task[t] = Idle
    /\ AskLimiter(t, <<op, of>>)
    /\ SetTask(t, [op |-> op, of |-> of, at |-> "limiter"])
    /\ UNCHANGED <<tables, history>>

Admit(t) == Grant(t) /\ Goto(t, "read") /\ UNCHANGED <<tables, history>>
Refuse(t) == Deny(t) /\ Done(t) /\ UNCHANGED <<tables, history>>

(* register: the name is looked up, the password hashed, the row inserted. *)

RegisterRead(t) ==
    /\ At(t, "register", "read")
    /\ IF task[t].of \in users THEN Done(t) ELSE Goto(t, "write")
    /\ UNCHANGED <<clock, limiterVars, tables, history>>

\* Mutant: users.username is not UNIQUE.
RegisterInsertTwice(t) ==
    /\ At(t, "register", "write")
    /\ users' = users \cup {task[t].of}
    /\ welcomed' = [welcomed EXCEPT ![task[t].of] = @ + 1]
    /\ Done(t)
    /\ UNCHANGED <<clock, limiterVars, challenges, sessions, overlapped>>

\* users.username is UNIQUE: the second of two that saw the name free fails.
RegisterInsert(t) ==
    /\ At(t, "register", "write")
    /\ LET user == task[t].of
       IN  IF user \in users
           THEN UNCHANGED <<users, welcomed>>
           ELSE /\ users' = users \cup {user}
                /\ welcomed' = [welcomed EXCEPT ![user] = @ + 1]
    /\ Done(t)
    /\ UNCHANGED <<clock, limiterVars, challenges, sessions, overlapped>>

(* login_password *)

Challenge(t) ==
    /\ At(t, "login_password", "read")
    /\ task[t].of \in users
    /\ Len(challenges) < MaxChallenges
    /\ challenges' = Append(challenges, [user |-> task[t].of, used |-> FALSE,
                                         expires |-> clock + ChallengeTTL])
    /\ Done(t)
    /\ UNCHANGED <<clock, limiterVars, users, sessions, history>>

\* No such user, or the password or the code is wrong.
Unauthorized(t) ==
    /\ At(t, "login_password", "read") \/ At(t, "login_otp", "read")
    /\ Done(t)
    /\ UNCHANGED <<clock, limiterVars, tables, history>>

(* login_otp *)

OtpRead(t) ==
    /\ At(t, "login_otp", "read")
    /\ Usable(task[t].of)
    /\ Goto(t, "write")
    /\ overlapped' = IF \E other \in Threads \ {t} :
                           At(other, "login_otp", "write") /\ task[other].of = task[t].of
                     THEN overlapped \cup {task[t].of} ELSE overlapped
    /\ UNCHANGED <<clock, limiterVars, tables, welcomed>>

\* The UPDATE names the row by its id and does not ask again whether it is used.
OtpWrite(t) ==
    /\ At(t, "login_otp", "write")
    /\ Len(sessions) < MaxSessions
    /\ LET c == task[t].of
       IN  /\ challenges' = [challenges EXCEPT ![c].used = TRUE]
           /\ sessions' = Append(sessions, [user |-> challenges[c].user, challenge |-> c,
                                            expires |-> clock + SessionTTL,
                                            revoked |-> FALSE])
    /\ Done(t)
    /\ UNCHANGED <<clock, limiterVars, users, history>>

(* logout: get_current_user, then the UPDATE. *)

LogoutRead(t, s) ==
    /\ task[t] = Idle
    /\ Live(s)
    /\ SetTask(t, [op |-> "logout", of |-> s, at |-> "write"])
    /\ UNCHANGED <<clock, limiterVars, tables, history>>

\* Mutant: the UPDATE toggles revoked_at.
LogoutToggle(t) ==
    /\ At(t, "logout", "write")
    /\ sessions' = [sessions EXCEPT ![task[t].of].revoked = ~@]
    /\ Done(t)
    /\ UNCHANGED <<clock, limiterVars, users, challenges, history>>

LogoutWrite(t) ==
    /\ At(t, "logout", "write")
    /\ sessions' = [sessions EXCEPT ![task[t].of].revoked = TRUE]
    /\ Done(t)
    /\ UNCHANGED <<clock, limiterVars, users, challenges, history>>

(* Time and restart *)

AuthTick == LimiterTick /\ UNCHANGED <<tables, task, history>>

\* Handlers and the limiter are lost, the tables are kept.
AuthRestart ==
    /\ LimiterRestart
    /\ task' = [t \in Threads |-> Idle]
    /\ UNCHANGED <<tables, history>>

-----------------------------------------------------------------------------
AuthInit ==
    /\ LimiterInit
    /\ users = {} /\ challenges = <<>> /\ sessions = <<>>
    /\ task = [t \in Threads |-> Idle]
    /\ welcomed = [u \in Users |-> 0]
    /\ overlapped = {}

AuthRequest(t) ==
    \/ \E user \in Users, op \in {"register", "login_password"} : Request(t, op, user)
    \/ \E c \in DOMAIN challenges : Request(t, "login_otp", c)
    \/ \E s \in DOMAIN sessions : LogoutRead(t, s)

AuthStep(t) ==
    \/ Admit(t) \/ Refuse(t)
    \/ RegisterRead(t) \/ RegisterInsert(t)
    \/ Challenge(t) \/ Unauthorized(t)
    \/ OtpRead(t) \/ OtpWrite(t)
    \/ LogoutWrite(t)

AuthNext ==
    \/ \E t \in Threads : AuthRequest(t) \/ AuthStep(t)
    \/ AuthTick
    \/ AuthRestart

AuthSpec == AuthInit /\ [][AuthNext]_authVars

-----------------------------------------------------------------------------
(* Properties *)

\* Every variable has its type.
AuthTypeOK ==
    /\ LimiterTypeOK
    /\ users \subseteq Users
    /\ challenges \in Seq(Challenges)
    /\ sessions \in Seq(SessionRows)
    /\ task \in [Threads -> Tasks \cup {Idle}]
    /\ welcomed \in [Users -> Nat]
    /\ overlapped \subseteq DOMAIN challenges

\* A name is registered once: of several registrations that saw it free, whatever
\* their order, one is answered with success and its account is the one kept.
OneAccountPerName == \A u \in Users : welcomed[u] = IF u \in users THEN 1 ELSE 0

\* A challenge opens one session, unless two handlers had read it before either
\* marked it used: the code does not exclude that, and nothing else can do it.
OneSessionPerChallenge ==
    \A r, s \in DOMAIN sessions :
        r # s /\ sessions[r].challenge = sessions[s].challenge
            => sessions[r].challenge \in overlapped

SessionState ==
    [s \in 1..MaxSessions |->
        IF s \notin DOMAIN sessions THEN "none" ELSE IF Live(s) THEN "live" ELSE "ended"]

Abstract == INSTANCE Sessions WITH Tokens <- 1..MaxSessions, session <- SessionState

\* The tables implement the life of a token: once get_current_user refuses it, it
\* refuses it for good.
ImplementsSessions == Abstract!SessionsSpec

=============================================================================
