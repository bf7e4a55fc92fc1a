-------------------------------- MODULE Login --------------------------------
(***************************************************************************)
(* /login and /qrlogin: conversations that ask for a phone number, a code  *)
(* and a password, or wait for a QR code to be scanned, and store the      *)
(* session they get.                                                       *)
(*                                                                         *)
(* A handler holds one of the dispatcher's workers from its first line to  *)
(* its last, its questions included; the answers come as messages that     *)
(* need a worker as well.  ask_message registers one future per chat, so   *)
(* that the questions of a user's conversations share one place.           *)
(***************************************************************************)
EXTENDS LoginLimiter

CONSTANTS Workers,  \* handler workers of the client
          Tries,    \* max_otp_attempts, max_2fa_attempts
          MaxInbox, \* bound: updates that wait for a worker
          KindsOf,  \* bound: /login, /qrlogin or both, for each conversation
          Linkers,  \* bound: users who may have a session from before, and send links
          First,    \* a session from before
          NoOne     \* neither a conversation nor a session

ASSUME LoginAssumption ==
    /\ Workers \in Nat \ {0} /\ Tries \in Nat \ {0} /\ MaxInbox \in Nat \ {0}
    /\ KindsOf \in [Convs -> SUBSET {"phone", "qr"}] /\ Linkers \subseteq Users
    /\ First \notin Convs /\ NoOne \notin Convs \cup {First}

VARIABLES
    inbox,    \* updates that no worker has taken yet
    pc,       \* where each conversation is
    kind,     \* "phone" (/login) or "qr" (/qrlogin)
    asks,     \* what it asks for, and how many answers were no use
    ans,      \* what the user has answered
    sleep,    \* what is left of the sleep in acquire()
    waiting,  \* _waiting_users: whose future is registered for a user
    signed,   \* conversations whose client is signed in
    stored,   \* the session of each user
    seen,     \* the session a conversation found and tests
    held,     \* the session a link of the user works with
    crossed,  \* history: users with two conversations at once
    promise,  \* history: time left of the wait that a fast login was granted after
              \* the last attempt, or NoGrant
    gap       \* history: time since the last attempt of a user that got a slot

mailVars  == <<inbox, ans, waiting>>
storeVars == <<stored, held>>
locals    == <<kind, asks, seen, sleep, signed>>
talkVars  == <<pc, locals>>
loginVars == <<limiterVars, mailVars, storeVars, talkVars, crossed, promise, gap>>

Sessions == Convs \cup {First}
Handled  == {c \in Convs : pc[c] \notin {"unsent", "sent", "done"}}
Of(u)    == {c \in Convs : UserOf[c] = u}

Question(q) == [for |-> q, failed |-> 0]

LoginInit ==
    /\ LimiterInit
    /\ inbox = <<>>
    /\ pc = [c \in Convs |-> "unsent"]
    /\ kind = [c \in Convs |-> "phone"]
    /\ asks = [c \in Convs |-> Question("phone")]
    /\ ans = [c \in Convs |-> "text"]
    /\ sleep = [c \in Convs |-> 0]
    /\ waiting = [u \in Users |-> NoOne]
    /\ signed = {}
    /\ stored \in [Users -> {First, NoOne}] /\ \A u \in Users \ Linkers : stored[u] = NoOne
    /\ seen = [c \in Convs |-> NoOne]
    /\ held = [u \in Users |-> NoOne]
    /\ crossed = {} /\ promise = [u \in Users |-> NoGrant]
    /\ gap = [u \in Users |-> UserCooldown]

\* Beside every step.
Watch == LET handled == Handled'
         IN  crossed' = crossed \cup {UserOf[c] : c \in {d \in handled :
                                        \E e \in handled \ {d} : UserOf[d] = UserOf[e]}}

Quiet == UNCHANGED <<promise, gap>> /\ Watch

\* What allow_fast_relogin promises with a True: its wait_seconds, and no more when it is
\* asked again.
Promised(u) ==
    promise' = [promise EXCEPT ![u] = IF LightLoad /\ @ = NoGrant THEN FastWait ELSE @]

GoTo(c, place) == pc' = [pc EXCEPT ![c] = place]

-----------------------------------------------------------------------------
(* Updates.                                                                *)

\* The user sends a text, /cancel among them, or some other command.  Messages that
\* no conversation can hear are left out.
UserSends(u, what) ==
    /\ Len(inbox) < MaxInbox
    /\ \E c \in Of(u) : pc[c] \in {"prompt", "asked", "answered"}
    /\ inbox' = Append(inbox, [from |-> u, what |-> what, conv |-> NoOne])
    /\ UNCHANGED <<limiterVars, ans, waiting, storeVars, talkVars>> /\ Quiet

\* The user sends /login or /qrlogin.
UserLogsIn(c, how) ==
    /\ pc[c] = "unsent" /\ how \in KindsOf[c] /\ Len(inbox) < MaxInbox
    /\ inbox' = Append(inbox, [from |-> UserOf[c], what |-> "command", conv |-> c])
    /\ GoTo(c, "sent") /\ kind' = [kind EXCEPT ![c] = how]
    /\ UNCHANGED <<limiterVars, ans, waiting, storeVars, asks, seen, sleep, signed>> /\ Quiet

\* _response_handler, for every private message: the registered future gets it,
\* unless it has one.
Heard(m) == {c \in Convs : waiting[m.from] = c /\ pc[c] = "asked"}

\* A worker takes an update: the response handler comes first, then that of the command.
TakeUpdate ==
    /\ inbox # <<>> /\ Cardinality(Handled) < Workers
    /\ inbox' = Tail(inbox)
    /\ LET m == Head(inbox)
       IN  /\ pc' = [c \in Convs |-> IF c = m.conv THEN "entry"
                                     ELSE IF c \in Heard(m) THEN "answered" ELSE pc[c]]
           /\ ans' = [c \in Convs |-> IF c \in Heard(m) THEN m.what ELSE ans[c]]
    /\ UNCHANGED <<limiterVars, waiting, storeVars, locals>> /\ Quiet

-----------------------------------------------------------------------------
(* Steps of a conversation.                                                *)

\* The handler returns, and its variables are gone.
Close(c) ==
    /\ GoTo(c, "done")
    /\ asks' = [asks EXCEPT ![c] = Question("phone")]
    /\ seen' = [seen EXCEPT ![c] = NoOne]
    /\ kind' = [kind EXCEPT ![c] = "phone"]
    /\ signed' = signed \ {c}
    /\ UNCHANGED sleep

\* The handler returns through the finally of acquire().
End(c) == Close(c) /\ Give(c) /\ UNCHANGED <<queue, stampVars>>

\* insert_user and find_user.
Enter(c) ==
    /\ pc[c] = "entry"
    /\ seen' = [seen EXCEPT ![c] = stored[UserOf[c]]]
    /\ GoTo(c, IF stored[UserOf[c]] = NoOne THEN "check" ELSE "probe")
    /\ UNCHANGED <<limiterVars, mailVars, storeVars, kind, asks, sleep, signed>> /\ Quiet

\* quick_session_check finds the session good: "already logged in".
ProbeGood(c) ==
    /\ pc[c] = "probe" /\ Close(c)
    /\ UNCHANGED <<limiterVars, mailVars, storeVars>> /\ Quiet

\* The user's session is cleared, whichever it is by now.
Clear(u) == stored' = [stored EXCEPT ![u] = NoOne]

\* It finds it bad, or cannot connect: the session is cleared.
ProbeBad(c) ==
    /\ pc[c] = "probe" /\ GoTo(c, "check")
    /\ Clear(UserOf[c]) /\ FastRelogin(UserOf[c]) /\ Promised(UserOf[c])
    /\ seen' = [seen EXCEPT ![c] = NoOne]
    /\ UNCHANGED <<slotVars, mailVars, held, kind, asks, sleep, signed, gap>> /\ Watch

\* The first can_login refuses.
Refused(c) ==
    /\ pc[c] = "check" /\ Verdict(UserOf[c]) # Free /\ Ask(UserOf[c]) /\ Close(c)
    /\ UNCHANGED <<slotVars, mailVars, storeVars>> /\ Quiet

\* It does not.
Admitted(c) ==
    /\ pc[c] = "check" /\ Verdict(UserOf[c]) = Free /\ Ask(UserOf[c])
    /\ GoTo(c, IF kind[c] = "qr" THEN "scan" ELSE "prompt")
    /\ UNCHANGED <<slotVars, mailVars, storeVars, locals>> /\ Quiet

\* Fault: a future is registered for the first question only.
RegisterOnce(c) ==
    /\ pc[c] = "prompt" /\ GoTo(c, "asked")
    /\ waiting' = [waiting EXCEPT ![UserOf[c]] = IF asks[c].for = "phone" THEN c ELSE @]
    /\ UNCHANGED <<limiterVars, inbox, ans, storeVars, locals>> /\ Quiet

\* ask_message has sent the question and registers its future.
Register(c) ==
    /\ pc[c] = "prompt" /\ GoTo(c, "asked")
    /\ waiting' = [waiting EXCEPT ![UserOf[c]] = c]
    /\ UNCHANGED <<limiterVars, inbox, ans, storeVars, locals>> /\ Quiet

\* The question cannot be sent, in Markdown or without: the error leaves the handler.
AskFails(c) ==
    /\ pc[c] = "prompt" /\ End(c)
    /\ UNCHANGED <<mailVars, storeVars>> /\ Quiet

\* ask_message's finally: the entry of the chat goes, whoever's it is.
Unregister(c) == waiting' = [waiting EXCEPT ![UserOf[c]] = NoOne]

\* Nobody answers for five minutes.
AskTimesOut(c) ==
    /\ pc[c] = "asked" /\ Unregister(c) /\ End(c)
    /\ UNCHANGED <<inbox, ans, storeVars>> /\ Quiet

\* The conversation goes on with the answer.
Reads(c, what) ==
    /\ pc[c] = "answered" /\ ans[c] \in what
    /\ Unregister(c) /\ ans' = [ans EXCEPT ![c] = "text"] /\ UNCHANGED inbox

Asked(c, q) == asks[c].for = q

\* The text is /cancel.
Cancels(c) ==
    /\ Reads(c, {"text"}) /\ End(c)
    /\ UNCHANGED storeVars /\ Quiet

\* Whatever else comes is taken for the phone number.
PhoneGiven(c) ==
    /\ Asked(c, "phone") /\ Reads(c, {"text", "command"}) /\ GoTo(c, "acquire")
    /\ UNCHANGED <<limiterVars, storeVars, locals>> /\ Quiet

\* The second can_login, in acquire(): go on, sleep, or give up.
Queues(c) ==
    /\ pc[c] = "acquire" /\ Verdict(UserOf[c]) = Free /\ Ask(UserOf[c])
    /\ Join(c) /\ GoTo(c, "slot")
    /\ UNCHANGED <<permits, active, holders, loggingIn, mailVars, storeVars, locals>>
    /\ Quiet

Sleeps(c) ==
    /\ pc[c] = "acquire" /\ Verdict(UserOf[c]) \in 1..SlotTime /\ Ask(UserOf[c])
    /\ sleep' = [sleep EXCEPT ![c] = Verdict(UserOf[c])] /\ GoTo(c, "sleep")
    /\ UNCHANGED <<slotVars, mailVars, storeVars, kind, asks, seen, signed>> /\ Quiet

TurnedAway(c) ==
    /\ pc[c] = "acquire" /\ Verdict(UserOf[c]) \notin {Free} \cup 1..SlotTime
    /\ Ask(UserOf[c]) /\ Close(c)
    /\ UNCHANGED <<slotVars, mailVars, storeVars>> /\ Quiet

\* The sleep is over; can_login is not asked again.
Wakes(c) ==
    /\ pc[c] = "sleep" /\ sleep[c] = 0 /\ Join(c) /\ GoTo(c, "slot")
    /\ UNCHANGED <<permits, active, holders, loggingIn, stampVars, mailVars, storeVars, locals>>
    /\ Quiet

SlotTimesOut(c) ==
    /\ pc[c] = "slot" /\ Leave(c) /\ Close(c)
    /\ UNCHANGED <<permits, active, holders, loggingIn, stampVars, mailVars, storeVars>>
    /\ Quiet

GetsSlot(c) ==
    /\ pc[c] = "slot" /\ Take(c) /\ GoTo(c, "connect")
    /\ promise' = [promise EXCEPT ![UserOf[c]] = NoGrant]
    /\ gap' = [gap EXCEPT ![UserOf[c]] = 0]
    /\ UNCHANGED <<mailVars, storeVars, locals>> /\ Watch

\* connect and send_code_raw.
CodeSent(c) ==
    /\ pc[c] = "connect" /\ GoTo(c, "prompt")
    /\ asks' = [asks EXCEPT ![c] = Question("code")]
    /\ UNCHANGED <<limiterVars, mailVars, storeVars, kind, seen, sleep, signed>> /\ Quiet

\* No number, a flood wait, a code that would go by mail, or any other error.
CodeRefused(c) ==
    /\ pc[c] = "connect" /\ End(c)
    /\ UNCHANGED <<mailVars, storeVars>> /\ Quiet

\* An answer was no use, and it was not the last that is allowed.
AsksAgain(c) ==
    /\ asks[c].failed + 1 < Tries
    /\ asks' = [asks EXCEPT ![c].failed = @ + 1] /\ GoTo(c, "prompt")
    /\ UNCHANGED <<limiterVars, kind, seen, sleep, signed>>

LastTry(c) == asks[c].failed + 1 >= Tries

\* A command, no digits, or a code that has run out and is sent anew: after the last
\* try the loop is left in the same way as after a success.
CodeUseless(c) ==
    /\ Asked(c, "code") /\ Reads(c, {"text", "command"})
    /\ \/ AsksAgain(c)
       \/ LastTry(c) /\ GoTo(c, "export") /\ UNCHANGED <<limiterVars, locals>>
    /\ UNCHANGED storeVars /\ Quiet

\* PhoneCodeInvalid: after the last try the handler returns.
CodeInvalid(c) ==
    /\ Asked(c, "code") /\ Reads(c, {"text"})
    /\ \/ AsksAgain(c)
       \/ LastTry(c) /\ End(c)
    /\ UNCHANGED storeVars /\ Quiet

\* Any other error of sign_in or check_password, an unregistered number, a new code
\* that cannot be sent.
AnswerFails(c) ==
    /\ ~Asked(c, "phone") /\ Reads(c, IF Asked(c, "code") THEN {"text"} ELSE {"text", "command"})
    /\ End(c)
    /\ UNCHANGED storeVars /\ Quiet

SignsIn(c) ==
    /\ signed' = signed \cup {c} /\ GoTo(c, "export")
    /\ UNCHANGED <<limiterVars, storeVars, kind, asks, seen, sleep>> /\ Quiet

CodeRight(c) == Asked(c, "code") /\ Reads(c, {"text"}) /\ SignsIn(c)

\* SessionPasswordNeeded.
PasswordNeeded(c) ==
    /\ Asked(c, "code") /\ Reads(c, {"text"}) /\ GoTo(c, "prompt")
    /\ asks' = [asks EXCEPT ![c] = Question("password")]
    /\ UNCHANGED <<limiterVars, storeVars, kind, seen, sleep, signed>> /\ Quiet

PasswordRight(c) == Asked(c, "password") /\ Reads(c, {"text"}) /\ SignsIn(c)

\* Any message that is not /cancel is tried as the password.
PasswordWrong(c) ==
    /\ Asked(c, "password") /\ Reads(c, {"text", "command"})
    /\ \/ AsksAgain(c)
       \/ LastTry(c) /\ End(c)
    /\ UNCHANGED storeVars /\ Quiet

\* The QR code is scanned, and the account has no password.
Scanned(c) == pc[c] = "scan" /\ SignsIn(c) /\ UNCHANGED mailVars

\* It has one, which is asked for as after a code.
ScannedLocked(c) ==
    /\ pc[c] = "scan" /\ GoTo(c, "prompt")
    /\ asks' = [asks EXCEPT ![c] = Question("password")]
    /\ UNCHANGED <<limiterVars, mailVars, storeVars, kind, seen, sleep, signed>> /\ Quiet

\* The QR code runs out, or the token cannot be had.
NotScanned(c) ==
    /\ pc[c] = "scan" /\ Close(c)
    /\ UNCHANGED <<limiterVars, mailVars, storeVars>> /\ Quiet

\* export_session_string, and get_me after a code: a client that is not signed in does
\* not pass.  After a QR code, which only a client that is signed in gets past, the
\* string is only measured.
Passes(c) == c \in signed

\* The session is stored, and the handler returns.
Stores(c) ==
    /\ pc[c] = "export" /\ Passes(c) /\ End(c)
    /\ stored' = [stored EXCEPT ![UserOf[c]] = c]
    /\ UNCHANGED <<mailVars, held>> /\ Quiet

ExportFails(c) ==
    /\ pc[c] = "export" /\ End(c)
    /\ UNCHANGED <<mailVars, storeVars>> /\ Quiet

-----------------------------------------------------------------------------
(* A link of the user meets an invalid session; time.                      *)

LinkBegins(u) ==
    /\ held[u] = NoOne /\ stored[u] # NoOne
    /\ held' = [held EXCEPT ![u] = stored[u]]
    /\ UNCHANGED <<limiterVars, mailVars, stored, talkVars>> /\ Quiet

LinkEnds(u) ==
    /\ held[u] # NoOne /\ held' = [held EXCEPT ![u] = NoOne]
    /\ UNCHANGED <<limiterVars, mailVars, stored, talkVars>> /\ Quiet

\* _handle_session_invalid; when the load is light the user is told that a minute
\* will do.
LinkRejected(u) ==
    /\ held[u] # NoOne /\ held' = [held EXCEPT ![u] = NoOne]
    /\ Clear(u) /\ FastRelogin(u) /\ Promised(u)
    /\ UNCHANGED <<slotVars, mailVars, talkVars, gap>> /\ Watch

Tick ==
    /\ Older
    /\ sleep' = [c \in Convs |-> AtLeast(sleep[c] - 1, 0)]
    /\ promise' = [u \in Users |-> IF promise[u] = NoGrant THEN NoGrant
                                   ELSE AtLeast(promise[u] - 1, 0)]
    /\ gap' = [u \in Users |-> AtMost(gap[u] + 1, UserCooldown)]
    /\ UNCHANGED <<slotVars, mailVars, storeVars, pc, kind, asks, seen, signed>> /\ Watch

Step(c) ==
    \/ Enter(c) \/ ProbeGood(c) \/ ProbeBad(c) \/ Refused(c) \/ Admitted(c)
    \/ Register(c) \/ AskFails(c) \/ AskTimesOut(c) \/ Cancels(c) \/ PhoneGiven(c)
    \/ Queues(c) \/ Sleeps(c) \/ TurnedAway(c) \/ Wakes(c) \/ SlotTimesOut(c) \/ GetsSlot(c)
    \/ CodeSent(c) \/ CodeRefused(c) \/ CodeUseless(c) \/ CodeInvalid(c) \/ AnswerFails(c)
    \/ CodeRight(c) \/ PasswordNeeded(c) \/ PasswordRight(c) \/ PasswordWrong(c)
    \/ Scanned(c) \/ ScannedLocked(c) \/ NotScanned(c) \/ Stores(c) \/ ExportFails(c)

LoginNext ==
    \/ \E c \in Convs : Step(c)
    \/ \E c \in Convs, how \in {"phone", "qr"} : UserLogsIn(c, how)
    \/ \E u \in Users, what \in {"text", "command"} : UserSends(u, what)
    \/ TakeUpdate
    \/ \E u \in Linkers : LinkBegins(u) \/ LinkEnds(u) \/ LinkRejected(u)
    \/ Tick

LoginSpec == LoginInit /\ [][LoginNext]_loginVars

\* Handlers go on: Telegram answers or times out, questions and the wait for a slot
\* have their limits.  Workers take updates, and time passes.
LoginFairSpec ==
    /\ LoginSpec
    /\ \A c \in Convs : WF_loginVars(Step(c))
    /\ WF_loginVars(TakeUpdate) /\ WF_loginVars(Tick)

-----------------------------------------------------------------------------
(* Properties.                                                             *)

Places == {"unsent", "sent", "entry", "probe", "check", "prompt", "asked", "answered",
           "acquire", "sleep", "slot", "connect", "scan", "export", "done"}

\* The type invariant.
LoginTypeOK ==
    /\ permits \in Nat /\ active \in Nat
    /\ holders \subseteq Convs /\ queue \in Seq(Convs)
    /\ loggingIn \in [Users -> BOOLEAN]
    /\ attempts \in [Users -> Nat]
    /\ sinceGlobal \in 0..GlobalCooldown
    /\ since \in [Users -> 0..UserCooldown] /\ sinceHour \in [Users -> 0..Hour]
    /\ grant \in [Users -> {NoGrant} \cup 0..FastWait]
    /\ inbox \in Seq([from : Users, what : {"text", "command"},
                      conv : Convs \cup {NoOne}])
    /\ pc \in [Convs -> Places] /\ kind \in [Convs -> {"phone", "qr"}]
    /\ asks \in [Convs -> [for : {"phone", "code", "password"}, failed : Nat]]
    /\ ans \in [Convs -> {"text", "command"}]
    /\ sleep \in [Convs -> Nat]
    /\ waiting \in [Users -> Convs \cup {NoOne}]
    /\ signed \subseteq Convs
    /\ stored \in [Users -> Sessions \cup {NoOne}]
    /\ seen \in [Convs -> Sessions \cup {NoOne}]
    /\ held \in [Users -> Sessions \cup {NoOne}]
    /\ crossed \subseteq Users
    /\ promise \in [Users -> {NoGrant} \cup 0..FastWait]
    /\ gap \in [Users -> 0..UserCooldown]

\* Conversations between acquire() and its finally.
Inside(c) ==
    \/ pc[c] = "connect"
    \/ pc[c] \in {"prompt", "asked", "answered"} /\ asks[c].for # "phone" /\ kind[c] = "phone"
    \/ pc[c] = "export" /\ kind[c] = "phone"

\* Whichever way a login by phone ends, its slot comes back, once: the permits, the
\* count and the slots that are held always make up the limit (acquire, its finally).
SlotsExact ==
    /\ holders = {c \in Convs : Inside(c)}
    /\ active = Cardinality(holders)
    /\ permits = MaxConcurrent - Cardinality(holders)

\* Nobody is told for good that a login of his is under way: the flag is up only
\* while one is, and it is up then unless the user has had two conversations at once
\* (is_logging_in, which the first of two to end takes down).
FlagTrue ==
    \A u \in Users :
        /\ loggingIn[u] => \E c \in Of(u) : c \in holders
        /\ u \notin crossed /\ (\E c \in Of(u) : c \in holders) => loggingIn[u]

\* No way through a login leaks a slot or blocks its user.
SlotsSound == SlotsExact /\ FlagTrue

\* A user who has one conversation at a time does not get more than MaxPerHour
\* attempts in an hour (can_login asks before the questions, the attempt is counted
\* after them).
HourlyLimit == \A u \in Users \ crossed : attempts[u] <= MaxPerHour

\* The limits that can_login promises: HourlyLimit, and two attempts of a user UserCooldown
\* apart, or FastWait after a grant of a fast login in between ("capped next retry"),
\* again unless he has had two conversations at once.
LimitsKept ==
    [][/\ HourlyLimit'
       /\ \A c \in holders' \ holders :
             LET u == UserOf[c]
             IN  u \in crossed' \/ gap[u] >= UserCooldown \/ promise[u] = 0]_loginVars

\* A question that waits for its answer is the one that hears it, unless the user has
\* had two conversations at once (_waiting_users has one entry per chat, and the
\* first conversation to go on removes that of the other).
QuestionHeard ==
    \A c \in Convs :
        pc[c] = "asked" /\ UserOf[c] \notin crossed => waiting[UserOf[c]] = c

\* Every /login and /qrlogin is taken by a worker and comes to an end, though the
\* workers sit in conversations that wait for messages.
ConversationEnds == \A c \in Convs : pc[c] = "sent" ~> pc[c] = "done"

\* The limiter keeps the promise of a set of slots with a queue: at most
\* MaxConcurrent logins by phone at a time, let in in the order of arrival.
Slots == INSTANCE SlotQueue WITH Clients <- Convs, Size <- MaxConcurrent,
                                 waiting <- queue, inside <- holders
SlotsInOrder == Slots!SlotQueueSpec

-----------------------------------------------------------------------------
(* What the code does not keep.                                            *)

\* "1 daqiqadan keyin /login bilan qayta kiring" (save.py 516), "we cap the next retry
\* to 1 minute" (login_rate_limiter.py 204): once the minute is over the user may log in,
\* as far as his own waits are concerned.  time_until_can_retry drops a grant when its
\* minute is over, and the whole wait is back.
GrantHonoured == \A u \in Users : promise[u] = 0 => UserWait(u) = 0

\* "Enforces cooldown between logins" (login_rate_limiter.py 96).
CooldownKept == [][holders' \ holders # {} => sinceGlobal >= GlobalCooldown]_loginVars

\* A session is cleared only when it is itself the one that turned out to be invalid.
FreshKept ==
    [][\A u \in Users : stored[u] # NoOne /\ stored'[u] = NoOne =>
           \/ held[u] = stored[u] /\ held'[u] = NoOne
           \/ \E c \in Of(u) : pc[c] = "probe" /\ pc'[c] = "check" /\ seen[c] = stored[u]]_loginVars

\* Every question that waits hears the user's next message.
EveryQuestionHeard == \A c \in Convs : pc[c] = "asked" => waiting[UserOf[c]] = c

\* "Allow max N concurrent logins" (login_rate_limiter.py 14), by phone or QR code.
LoginsBounded ==
    Cardinality(holders \cup {c \in Convs : pc[c] = "scan"}) <= MaxConcurrent

\* Some worker is left to take the answer that a conversation waits for.
SomeoneListens ==
    (\E c \in Convs : pc[c] = "asked") /\ inbox # <<>> => Cardinality(Handled) < Workers
=============================================================================
