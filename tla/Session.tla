------------------------------ MODULE Session ------------------------------
(***************************************************************************)
(* The session of a browser tab: two cookies, the access token for fifteen *)
(* minutes and the refresh token for a week, and calls that come and go.   *)
(* The response interceptor answers a 401 with a refresh that concurrent   *)
(* calls share, and sends the call once more.  Cookies go out when a call  *)
(* is sent and change when its answer arrives, so answers to calls sent    *)
(* before a login or logout may overtake it.                               *)
(*                                                                         *)
(* A token stands for the tokenVersion it was signed with.  Accounts has   *)
(* what the server does with users; here it accepts tokens of the present  *)
(* version.  Registering is a login that fails with another status.        *)
(***************************************************************************)
EXTENDS Naturals, FiniteSets

CONSTANTS
  Calls,        \* calls that may be in flight at a time
  NoCall,
  MaxVersion    \* bound on tokenVersion

ASSUME SessionOK ==
  /\ NoCall \notin Calls
  /\ MaxVersion \in Nat

VARIABLES
  jar,            \* cookies of the browser
  version,        \* tokenVersion of the account
  user,           \* has AuthContext a user?
  call,           \* the calls of the tab
  refresh,        \* refresh requests, each under the call that started it
  refreshFlight,  \* the one further calls wait for
  excused         \* history: calls in whose time the refresh token was not valid

vars == <<jar, version, user, call, refresh, refreshFlight, excused>>

Versions == 0..MaxVersion
Token == {{}} \union {{v} : v \in Versions}      \* a cookie there is, or none
Jars == [access : Token, refresh : Token]
NoCookies == [access |-> {}, refresh |-> {}]
Signed == [access |-> {version}, refresh |-> {version}]
Good == version \in jar.refresh

\* An answer: its status, the cookies it sets, and what it says of the user.
Answer(status, cookies, auth) == [status |-> status, cookies |-> cookies, auth |-> auth]
NoAnswer == Answer(0, {}, FALSE)
Resting == [pc |-> "idle", kind |-> "query", jar |-> NoCookies, retry |-> FALSE,
            on |-> NoCall, answer |-> NoAnswer]
NoRefresh == [pc |-> "idle", jar |-> NoCookies, answer |-> NoAnswer]
Busy(c) == call[c].pc \notin {"idle", "refused"}

Init ==
  /\ jar = NoCookies /\ version = 0 /\ user = FALSE
  /\ call = [c \in Calls |-> Resting]
  /\ refresh = [c \in Calls |-> NoRefresh]
  /\ refreshFlight = NoCall
  /\ excused = {}

Cookies(answer) == jar' = IF answer.cookies = {} THEN jar ELSE CHOOSE j \in answer.cookies : TRUE
Calling == UNCHANGED <<refresh, refreshFlight>>

-----------------------------------------------------------------------------
(* Calls.                                                                  *)

\* Pages behind ProtectedRoute send queries and log out, from the header or
\* ("signout") from the settings; the login page logs in.
Allowed(kind) ==
  CASE kind \in {"query", "logout", "signout"} -> user
    [] kind = "login" -> ~user
    [] OTHER -> TRUE

Send(c, kind) ==
  /\ ~Busy(c) /\ Allowed(kind)
  /\ call' = [call EXCEPT ![c] = [Resting EXCEPT !.pc = "sent", !.kind = kind, !.jar = jar]]
  /\ UNCHANGED <<jar, version, user>> /\ Calling

Accepts(token) == version \in token

\* requireAuth, login, checkAuth and logout.  checkAuth takes a query that fails
\* for a token that is not accepted.
Answers(kind, cookies) ==
  IF kind = "query" THEN {Answer(IF Accepts(cookies.access) THEN 200 ELSE 401, {}, FALSE)}
  ELSE IF kind = "login"
       THEN {Answer(200, {Signed}, TRUE), Answer(401, {}, FALSE), Answer(409, {}, FALSE)}
  ELSE IF kind = "check" THEN {Answer(200, {}, Accepts(cookies.access)), Answer(200, {}, FALSE)}
  ELSE {Answer(204, {NoCookies}, FALSE)}

Serve(c) ==
  /\ call[c].pc = "sent"
  /\ \E a \in Answers(call[c].kind, call[c].jar) :
       call' = [call EXCEPT ![c] = [@ EXCEPT !.pc = "answered", !.answer = a]]
  /\ UNCHANGED <<jar, version, user>> /\ Calling

\* What the caller does with an answer that is not a 401; the settings page
\* empties another store than the one with the user.
Settle(c) ==
  /\ call[c].answer.status # 401
  /\ user' = IF call[c].kind \in {"query", "signout"} \/ call[c].answer.status = 409
             THEN user ELSE call[c].answer.auth
  /\ call' = [call EXCEPT ![c] = Resting]
  /\ Calling

Refused(c) ==
  /\ call[c].answer.status = 401 /\ call[c].retry
  /\ call' = [call EXCEPT ![c] = [Resting EXCEPT !.pc = "refused", !.kind = call[c].kind]]
  /\ UNCHANGED user /\ Calling

\* Mutant of Flight: every 401 starts a refresh of its own.
FlightOwn(c) == c

\* refreshAccessToken: the refresh to wait for.
Flight(c) == IF refreshFlight = NoCall THEN c ELSE refreshFlight

AwaitRefresh(c) ==
  /\ call[c].answer.status = 401 /\ ~call[c].retry
  /\ refreshFlight' = Flight(c)
  /\ refresh' = IF Flight(c) = c
                THEN [refresh EXCEPT ![c] = [NoRefresh EXCEPT !.pc = "sent", !.jar = jar]]
                ELSE refresh
  /\ call' = [call EXCEPT ![c] = [@ EXCEPT !.pc = "waiting", !.on = Flight(c), !.answer = NoAnswer]]
  /\ UNCHANGED user

Receive(c) ==
  /\ call[c].pc = "answered"
  /\ Settle(c) \/ Refused(c) \/ AwaitRefresh(c)
  /\ Cookies(call[c].answer)
  /\ UNCHANGED version

\* The network fails: there is no status, and nothing is retried.
Lost(c) ==
  /\ call[c].pc \in {"sent", "answered"}
  /\ call' = [call EXCEPT ![c] = Resting]
  /\ UNCHANGED <<jar, version, user>> /\ Calling

-----------------------------------------------------------------------------
(* The refresh.                                                            *)

\* Without a cookie nothing is cleared; whatever goes wrong with one (a token
\* that is not accepted, but a query that fails as well) clears both.
Renewal(token) ==
  IF token = {} THEN {Answer(401, {}, FALSE)}
  ELSE {Answer(401, {NoCookies}, FALSE)}
       \union IF Accepts(token) THEN {Answer(200, {Signed}, TRUE)} ELSE {}

ServeRefresh(o) ==
  /\ refresh[o].pc = "sent"
  /\ \E a \in Renewal(refresh[o].jar.refresh) :
       refresh' = [refresh EXCEPT ![o] = [@ EXCEPT !.pc = "answered", !.answer = a]]
  /\ UNCHANGED <<jar, version, user, call, refreshFlight>>

Waiting(o) == {c \in Calls : call[c].pc = "waiting" /\ call[c].on = o}

\* Mutant of Retried: the call is not marked, and may be sent again and again.
RetriedUnmarked(c) == [Resting EXCEPT !.pc = "sent", !.kind = call[c].kind, !.jar = jar']

\* Mutant of Retried: it is sent with the cookies it was first sent with.
RetriedAsItWas(c) == [Resting EXCEPT !.pc = "sent", !.kind = call[c].kind, !.jar = call[c].jar, !.retry = TRUE]

Retried(c) == [Resting EXCEPT !.pc = "sent", !.kind = call[c].kind, !.jar = jar', !.retry = TRUE]

EndRefresh(o) ==
  /\ refresh' = [refresh EXCEPT ![o] = NoRefresh]
  /\ refreshFlight' = NoCall
  /\ UNCHANGED <<version, user>>

\* The call rejects with the 401 it had.
Rejected(c) == [Resting EXCEPT !.pc = "refused", !.kind = call[c].kind]

ReceiveRefresh(o) ==
  /\ refresh[o].pc = "answered"
  /\ Cookies(refresh[o].answer)
  /\ call' = [c \in Calls |->
               IF c \notin Waiting(o) THEN call[c]
               ELSE IF refresh[o].answer.status = 200 THEN Retried(c)
               ELSE Rejected(c)]
  /\ EndRefresh(o)

\* The network fails, or the answer is neither a success nor a 401: what waits
\* for the refresh is rejected all the same.
LostRefresh(o) ==
  /\ refresh[o].pc # "idle"
  /\ call' = [c \in Calls |-> IF c \in Waiting(o) THEN Rejected(c) ELSE call[c]]
  /\ UNCHANGED jar
  /\ EndRefresh(o)

-----------------------------------------------------------------------------
(* Time, the administrator and the trader.                                 *)

\* No refresh takes fifteen minutes.
AccessExpires ==
  /\ jar.access # {} /\ refreshFlight = NoCall
  /\ jar' = [jar EXCEPT !.access = {}]
  /\ UNCHANGED <<version, user, call>> /\ Calling

RefreshExpires ==
  /\ jar.refresh # {} /\ jar.access = {} /\ refreshFlight = NoCall
  /\ jar' = [jar EXCEPT !.refresh = {}]
  /\ UNCHANGED <<version, user, call>> /\ Calling

Revoke ==
  /\ version < MaxVersion
  /\ version' = version + 1
  /\ UNCHANGED <<jar, user, call>> /\ Calling

\* The page is loaded anew; the effect on mount then sends a check.
Reload ==
  /\ user' = FALSE
  /\ call' = [c \in Calls |-> Resting]
  /\ refresh' = [c \in Calls |-> NoRefresh] /\ refreshFlight' = NoCall
  /\ UNCHANGED <<jar, version>>

Kinds == {"query", "login", "check", "logout", "signout"}
CallStep(c) == Serve(c) \/ Receive(c) \/ ServeRefresh(c) \/ ReceiveRefresh(c)

Step ==
  \/ \E c \in Calls : CallStep(c) \/ Lost(c) \/ LostRefresh(c)
  \/ \E c \in Calls, kind \in Kinds : Send(c, kind)
  \/ AccessExpires \/ RefreshExpires \/ Revoke \/ Reload

Excuse ==
  excused' = {c \in Calls : /\ call'[c].pc \notin {"idle", "refused"}
                            /\ (c \in excused /\ Busy(c)) \/ ~Good'}

Next == Step /\ Excuse

\* The server answers and the answers arrive.
Spec == Init /\ [][Next]_vars /\ \A c \in Calls : WF_vars(CallStep(c) /\ Excuse)

-----------------------------------------------------------------------------
(* Every variable is of its type.                                          *)
AnswerType == [status : {0, 200, 204, 401, 409}, cookies : SUBSET Jars, auth : BOOLEAN]
CallType == [pc : {"idle", "sent", "answered", "waiting", "refused"}, kind : Kinds, jar : Jars,
             retry : BOOLEAN, on : Calls \union {NoCall}, answer : AnswerType]
RefreshType == [pc : {"idle", "sent", "answered"}, jar : Jars, answer : AnswerType]

TypeOK ==
  /\ jar \in Jars /\ version \in Versions /\ user \in BOOLEAN
  /\ call \in [Calls -> CallType]
  /\ refresh \in [Calls -> RefreshType]
  /\ refreshFlight \in Calls \union {NoCall}
  /\ excused \subseteq Calls

(* Parallel 401s share a refresh: there is at most one, it is the one that  *)
(* further calls wait for, and nobody waits for one that has ended.         *)
OneRefresh ==
  \A c \in Calls :
    /\ refresh[c].pc # "idle" => refreshFlight = c
    /\ call[c].pc = "waiting" => call[c].on = refreshFlight /\ refresh[call[c].on].pc # "idle"

(* The inductive invariant behind OneRefresh: the one that calls wait for is *)
(* under way.                                                               *)
IInv ==
  /\ TypeOK
  /\ OneRefresh
  /\ refreshFlight # NoCall => refresh[refreshFlight].pc # "idle"
  /\ refreshFlight = NoCall => \A c \in Calls : call[c].pc # "waiting"

(* A query ends with a 401 only if at some time since it was sent the       *)
(* browser had no valid refresh token (which a server that fails to look    *)
(* the user up takes from it as well), or if the one refresh it waited for  *)
(* was lost: expired access tokens, a crowd of calls, a retry and answers   *)
(* out of order do not show.                                                *)
RefusedWithReason ==
  [][\A c \in Calls :
       call[c].pc # "refused" /\ call'[c].pc = "refused" /\ call[c].kind = "query"
       => \/ c \in excused \/ ~Good'
          \/ \E o \in Calls : c \in Waiting(o) /\ LostRefresh(o)]_vars

(* The inductive invariant behind RefusedWithReason.  Cookies are set in    *)
(* pairs and never of a version to come; only a refresh sent without its    *)
(* cookie is answered in vain, that is, leaves the cookies as they are.  A  *)
(* query that is not excused is accepted once it is retried, and while a    *)
(* refresh is in vain no such query waits for it.                           *)
Sound(answer) == \A j \in answer.cookies : j.access = j.refresh /\ \A v \in j.refresh : v <= version
Blank(r) ==
  \/ r.pc = "sent" /\ r.jar.refresh = {}
  \/ r.pc = "answered" /\ r.answer.status # 200 /\ r.answer.cookies = {}
InVain == \E o \in Calls : Blank(refresh[o])
Fresh(n) ==
  /\ n.pc = "sent" => version \in n.jar.access
  /\ n.pc = "answered" => n.answer.status # 401
  /\ n.pc # "waiting"

CookiesPaired ==
  /\ \A v \in jar.refresh : v <= version
  /\ jar.refresh = {} => jar.access = {}
  /\ InVain => jar.access = jar.refresh
AnswersSound ==
  /\ \A c \in Calls : Sound(call[c].answer) /\ Sound(refresh[c].answer)
  /\ \A c \in Calls :
       call[c].pc = "answered" /\ call[c].answer.status = 401 => call[c].answer.cookies = {}
  /\ \A c \in Calls : refresh[c].pc = "answered" =>
       IF refresh[c].answer.status = 200 THEN refresh[c].answer.cookies # {}
                                         ELSE refresh[c].answer.cookies \subseteq {NoCookies}
QueriesFresh ==
  \A c \in Calls \ excused :
    Busy(c) /\ call[c].kind = "query" /\ (call[c].retry \/ InVain) => Fresh(call[c])
TokensFollow == CookiesPaired /\ AnswersSound /\ QueriesFresh

(* Every call comes to an end, however often it is answered with a 401 and  *)
(* whatever becomes of the refresh it waits for.                            *)
CallsSettle == \A c \in Calls : Busy(c) ~> ~Busy(c)
=============================================================================
