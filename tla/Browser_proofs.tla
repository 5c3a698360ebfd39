--------------------------- MODULE Browser_proofs ---------------------------
(* Proofs about two components of a browser tab that share no state: first  *)
(* Session, for any number of calls and of revocations, then Pages, for any *)
(* number of slow keys, pending mutations and mishaps.                      *)
EXTENDS Session, Pages, TLAPS

USE SessionOK DEF SessionOK

-----------------------------------------------------------------------------
(* Types.                                                                  *)

\* The records the actions write are calls, answers and refreshes.
LEMMA NoCookiesType == NoCookies \in Jars
BY DEF NoCookies, Jars, Token

LEMMA SignedType == ASSUME version \in Versions PROVE Signed \in Jars
BY DEF Signed, Jars, Token

LEMMA NoAnswerType == NoAnswer \in AnswerType
BY DEF NoAnswer, Answer, AnswerType

LEMMA RestingType == Resting \in CallType
<1>1. "query" \in Kinds
  BY DEF Kinds
<1>2. QED
  BY <1>1, NoCookiesType, NoAnswerType DEF Resting, CallType

LEMMA NoRefreshType == NoRefresh \in RefreshType
BY NoCookiesType, NoAnswerType DEF NoRefresh, RefreshType

\* A browser takes the cookies of an answer, if it sets any.
LEMMA CookiesType ==
  ASSUME jar \in Jars, NEW a \in AnswerType, Cookies(a)
  PROVE  jar' \in Jars
<1>1. CASE a.cookies = {}
  BY <1>1 DEF Cookies
<1>2. CASE a.cookies # {}
  <2>1. (CHOOSE j \in a.cookies : TRUE) \in a.cookies
    BY <1>2
  <2>2. a.cookies \subseteq Jars
    BY DEF AnswerType
  <2>3. QED
    BY <1>2, <2>1, <2>2 DEF Cookies
<1>3. QED
  BY <1>1, <1>2

LEMMA AnswerIs ==
  ASSUME NEW status \in {0, 200, 204, 401, 409}, NEW cookies \in SUBSET Jars, NEW auth \in BOOLEAN
  PROVE  Answer(status, cookies, auth) \in AnswerType
BY DEF Answer, AnswerType

\* What the server answers to a call is an answer.
LEMMA AnswersType ==
  ASSUME version \in Versions, NEW kind \in Kinds, NEW cookies \in Jars,
         NEW a \in Answers(kind, cookies)
  PROVE  a \in AnswerType
<1>1. /\ {Signed} \in SUBSET Jars
      /\ {NoCookies} \in SUBSET Jars
  BY SignedType, NoCookiesType
<1>2. CASE kind = "query"
  <2>1. a = Answer(IF Accepts(cookies.access) THEN 200 ELSE 401, {}, FALSE)
    BY <1>2 DEF Answers
  <2>2. (IF Accepts(cookies.access) THEN 200 ELSE 401) \in {0, 200, 204, 401, 409}
    OBVIOUS
  <2>3. QED
    BY <2>1, <2>2 DEF Answer, AnswerType
<1>3. CASE kind = "login"
  <2>1. \/ a = Answer(200, {Signed}, TRUE)
        \/ a = Answer(401, {}, FALSE)
        \/ a = Answer(409, {}, FALSE)
    BY <1>3 DEF Answers
  <2>2. CASE a = Answer(200, {Signed}, TRUE)
    BY <1>1, <2>2 DEF Answer, AnswerType
  <2>3. CASE a = Answer(401, {}, FALSE)
    BY <2>3 DEF Answer, AnswerType
  <2>4. CASE a = Answer(409, {}, FALSE)
    BY <2>4 DEF Answer, AnswerType
  <2>5. QED
    BY <2>1, <2>2, <2>3, <2>4
<1>4. CASE kind = "check"
  <2>1. a = Answer(200, {}, Accepts(cookies.access)) \/ a = Answer(200, {}, FALSE)
    BY <1>4 DEF Answers
  <2>2. Accepts(cookies.access) \in BOOLEAN
    BY DEF Accepts
  <2>3. CASE a = Answer(200, {}, FALSE)
    BY <2>3 DEF Answer, AnswerType
  <2>4. CASE a = Answer(200, {}, Accepts(cookies.access))
    BY <2>2, <2>4 DEF Answer, AnswerType
  <2>5. QED
    BY <2>1, <2>3, <2>4
<1>5. CASE kind \in {"logout", "signout"}
  <2>1. a = Answer(204, {NoCookies}, FALSE)
    BY <1>5 DEF Answers
  <2>2. QED
    BY <1>1, <2>1 DEF Answer, AnswerType
<1>6. QED
  BY <1>2, <1>3, <1>4, <1>5 DEF Kinds

-----------------------------------------------------------------------------
(* The refresh that concurrent calls share.                                *)

LEMMA InitIInv == Init => IInv
<1> SUFFICES ASSUME Init PROVE IInv
  OBVIOUS
<1>1. TypeOK
  <2>1. version \in Versions /\ user \in BOOLEAN
    <3>1. version \in Versions
      BY DEF Init, Versions
    <3>2. user \in BOOLEAN
      BY DEF Init
    <3>3. QED
      BY <3>1, <3>2
  <2>2. call \in [Calls -> CallType] /\ refresh \in [Calls -> RefreshType]
    BY RestingType, NoRefreshType DEF Init
  <2>3. QED
    BY <2>1, <2>2, NoCookiesType DEF Init, TypeOK
<1>2. QED
  BY <1>1 DEF Init, IInv, OneRefresh, Resting, NoRefresh

\* A step of one call that does not make it wait for the refresh.
LEMMA OneCall ==
  ASSUME IInv, NEW c \in Calls, NEW n \in CallType, n.pc # "waiting",
         call' = [call EXCEPT ![c] = n], UNCHANGED <<refresh, refreshFlight>>,
         jar' \in Jars, version' \in Versions, user' \in BOOLEAN, excused' \subseteq Calls
  PROVE  IInv'
<1>1. TypeOK'
  BY DEF IInv, TypeOK
<1>2. OneRefresh'
  <2> SUFFICES ASSUME NEW d \in Calls
               PROVE  /\ refresh[d].pc # "idle" => refreshFlight = d
                      /\ call'[d].pc = "waiting" =>
                           call'[d].on = refreshFlight /\ refresh[call'[d].on].pc # "idle"
    BY DEF OneRefresh
  <2>1. CASE d = c
    <3>1. call'[d] = n
      BY <2>1 DEF IInv, TypeOK
    <3>2. QED
      BY <3>1 DEF IInv, OneRefresh
  <2>2. CASE d # c
    <3>1. call'[d] = call[d]
      BY <2>2 DEF IInv, TypeOK
    <3>2. QED
      BY <3>1 DEF IInv, OneRefresh
  <2>3. QED
    BY <2>1, <2>2
<1>3. \A d \in Calls : call'[d].pc = "waiting" => call[d].pc = "waiting"
  BY DEF IInv, TypeOK
<1>4. QED
  BY <1>1, <1>2, <1>3 DEF IInv

\* Calls are sent, served and lost.
LEMMA SendIInv ==
  ASSUME IInv, NEW c \in Calls, NEW kind \in Kinds, Send(c, kind), excused' \subseteq Calls
  PROVE  IInv'
<1> DEFINE n == [Resting EXCEPT !.pc = "sent", !.kind = kind, !.jar = jar]
<1>1. n \in CallType /\ n.pc = "sent"
  BY RestingType DEF CallType, IInv, TypeOK
<1>2. /\ call' = [call EXCEPT ![c] = n]
      /\ UNCHANGED <<refresh, refreshFlight, jar, version, user>>
  BY DEF Send, Calling
<1>3. QED
  BY <1>1, <1>2, OneCall DEF IInv, TypeOK

LEMMA ServeIInv ==
  ASSUME IInv, NEW c \in Calls, Serve(c), excused' \subseteq Calls
  PROVE  IInv'
<1>1. PICK a \in Answers(call[c].kind, call[c].jar) :
        call' = [call EXCEPT ![c] = [@ EXCEPT !.pc = "answered", !.answer = a]]
  BY DEF Serve
<1> DEFINE n == [call[c] EXCEPT !.pc = "answered", !.answer = a]
<1>2. a \in AnswerType
  BY AnswersType DEF IInv, TypeOK, CallType
<1>3. n \in CallType /\ n.pc = "answered"
  BY <1>2 DEF IInv, TypeOK, CallType
<1>4. /\ call' = [call EXCEPT ![c] = n]
      /\ UNCHANGED <<refresh, refreshFlight, jar, version, user>>
  BY <1>1 DEF Serve, Calling
<1>5. QED
  BY <1>3, <1>4, OneCall DEF IInv, TypeOK

LEMMA LostIInv ==
  ASSUME IInv, NEW c \in Calls, Lost(c), excused' \subseteq Calls
  PROVE  IInv'
<1>1. Resting \in CallType /\ Resting.pc = "idle"
  BY RestingType DEF Resting
<1>2. /\ call' = [call EXCEPT ![c] = Resting]
      /\ UNCHANGED <<refresh, refreshFlight, jar, version, user>>
  BY DEF Lost, Calling
<1>3. QED
  BY <1>1, <1>2, OneCall DEF IInv, TypeOK

\* A 401 either starts the refresh or joins the one there is.
LEMMA AwaitIInv ==
  ASSUME IInv, NEW c \in Calls, AwaitRefresh(c), jar' \in Jars, UNCHANGED version,
         excused' \subseteq Calls
  PROVE  IInv'
<1> DEFINE n == [call[c] EXCEPT !.pc = "waiting", !.on = Flight(c), !.answer = NoAnswer]
           r == [NoRefresh EXCEPT !.pc = "sent", !.jar = jar]
<1>1. Flight(c) \in Calls
  BY DEF Flight, IInv, TypeOK
<1>2. n \in CallType /\ n.pc = "waiting" /\ n.on = Flight(c)
  BY <1>1, NoAnswerType DEF IInv, TypeOK, CallType
<1>3. r \in RefreshType /\ r.pc = "sent"
  BY NoRefreshType DEF RefreshType, IInv, TypeOK
<1>4. /\ call' = [call EXCEPT ![c] = n]
      /\ refresh' = IF Flight(c) = c THEN [refresh EXCEPT ![c] = r] ELSE refresh
      /\ refreshFlight' = Flight(c)
      /\ user' = user
  BY DEF AwaitRefresh
<1> HIDE DEF n, r
<1>5. TypeOK'
  <2>1. call' \in [Calls -> CallType]
    BY <1>2, <1>4 DEF IInv, TypeOK
  <2>2. refresh' \in [Calls -> RefreshType]
    BY <1>3, <1>4 DEF IInv, TypeOK
  <2>3. QED
    BY <1>1, <1>4, <2>1, <2>2 DEF IInv, TypeOK
<1>6. refresh'[Flight(c)].pc # "idle"
  BY <1>3, <1>4 DEF Flight, IInv, TypeOK
<1>7. \A d \in Calls : refresh'[d].pc # "idle" => d = Flight(c)
  BY <1>4 DEF Flight, IInv, TypeOK, OneRefresh
<1>8. \A d \in Calls : call'[d].pc = "waiting" => call'[d].on = Flight(c)
  <2> SUFFICES ASSUME NEW d \in Calls, call'[d].pc = "waiting"
               PROVE  call'[d].on = Flight(c)
    OBVIOUS
  <2>1. CASE d = c
    BY <1>2, <1>4, <2>1 DEF IInv, TypeOK
  <2>2. CASE d # c
    <3>1. call'[d] = call[d]
      BY <1>4, <2>2 DEF IInv, TypeOK
    <3>2. call[d].on = refreshFlight /\ refresh[refreshFlight].pc # "idle"
      BY <3>1 DEF IInv, OneRefresh
    <3>3. refreshFlight # NoCall
      BY <3>1 DEF IInv
    <3>4. QED
      BY <3>1, <3>2, <3>3 DEF Flight
  <2>3. QED
    BY <2>1, <2>2
<1>9. QED
  BY <1>1, <1>4, <1>5, <1>6, <1>7, <1>8 DEF IInv, OneRefresh

LEMMA ReceiveIInv ==
  ASSUME IInv, NEW c \in Calls, Receive(c), excused' \subseteq Calls
  PROVE  IInv'
<1>1. jar' \in Jars
  BY CookiesType DEF Receive, IInv, TypeOK, CallType
<1>2. CASE Settle(c)
  <2>1. Resting \in CallType /\ Resting.pc = "idle"
    BY RestingType DEF Resting
  <2>2. user' \in BOOLEAN
    <3>1. call[c].answer.auth \in BOOLEAN /\ user \in BOOLEAN
      BY DEF IInv, TypeOK, CallType, AnswerType
    <3>2. QED
      BY <1>2, <3>1 DEF Settle
  <2>3. /\ call' = [call EXCEPT ![c] = Resting]
        /\ UNCHANGED <<refresh, refreshFlight>>
    BY <1>2 DEF Settle, Calling
  <2>4. version' \in Versions
    BY DEF Receive, IInv, TypeOK
  <2>5. QED
    BY <1>1, <2>1, <2>2, <2>3, <2>4, OneCall
<1>3. CASE Refused(c)
  <2> DEFINE n == [Resting EXCEPT !.pc = "refused", !.kind = call[c].kind]
  <2>1. n \in CallType /\ n.pc = "refused"
    BY RestingType DEF CallType, IInv, TypeOK
  <2>2. /\ call' = [call EXCEPT ![c] = n]
        /\ UNCHANGED <<refresh, refreshFlight, version, user>>
    BY <1>3 DEF Receive, Refused, Calling
  <2>3. QED
    BY <1>1, <2>1, <2>2, OneCall DEF IInv, TypeOK
<1>4. CASE AwaitRefresh(c)
  BY <1>1, <1>4, AwaitIInv DEF Receive
<1>5. QED
  BY <1>2, <1>3, <1>4 DEF Receive

\* The refresh is answered: who waits for it goes on waiting.
LEMMA ServeRefreshIInv ==
  ASSUME IInv, NEW o \in Calls, ServeRefresh(o), excused' \subseteq Calls
  PROVE  IInv'
<1> PICK a \in Renewal(refresh[o].jar.refresh) :
      refresh' = [refresh EXCEPT ![o] = [@ EXCEPT !.pc = "answered", !.answer = a]]
  BY DEF ServeRefresh
<1> DEFINE r == [refresh[o] EXCEPT !.pc = "answered", !.answer = a]
<1>1. a \in AnswerType
  <2>1. {} \in SUBSET Jars /\ {NoCookies} \in SUBSET Jars /\ {Signed} \in SUBSET Jars
    BY NoCookiesType, SignedType DEF IInv, TypeOK
  <2>2. \/ a = Answer(401, {}, FALSE)
        \/ a = Answer(401, {NoCookies}, FALSE)
        \/ a = Answer(200, {Signed}, TRUE)
    BY DEF Renewal
  <2>3. CASE a = Answer(401, {}, FALSE)
    BY <2>1, <2>3 DEF Answer, AnswerType
  <2>4. CASE a = Answer(401, {NoCookies}, FALSE)
    BY <2>1, <2>4 DEF Answer, AnswerType
  <2>5. CASE a = Answer(200, {Signed}, TRUE)
    BY <2>1, <2>5 DEF Answer, AnswerType
  <2>6. QED
    BY <2>2, <2>3, <2>4, <2>5
<1>2. r \in RefreshType /\ r.pc = "answered"
  BY <1>1 DEF IInv, TypeOK, RefreshType
<1>3. /\ refresh[o].pc = "sent"
      /\ refresh' = [refresh EXCEPT ![o] = r]
      /\ UNCHANGED <<jar, version, user, call, refreshFlight>>
  BY DEF ServeRefresh
<1> HIDE DEF r
<1>4. TypeOK'
  BY <1>2, <1>3 DEF IInv, TypeOK
<1>5. \A d \in Calls : refresh'[d].pc = "idle" <=> refresh[d].pc = "idle"
  BY <1>2, <1>3 DEF IInv, TypeOK
<1>6. QED
  BY <1>3, <1>4, <1>5 DEF IInv, OneRefresh, TypeOK, CallType

\* The refresh ends: nobody waits any more, and none is under way.
LEMMA EndRefreshIInv ==
  ASSUME IInv, NEW o \in Calls, refresh[o].pc # "idle", EndRefresh(o),
         jar' \in Jars, excused' \subseteq Calls,
         NEW n \in [Calls -> CallType], \A d \in Calls : n[d].pc # "waiting",
         call' = [d \in Calls |-> IF d \in Waiting(o) THEN n[d] ELSE call[d]]
  PROVE  IInv'
<1>1. refreshFlight = o
  BY DEF IInv, OneRefresh
<1>2. \A d \in Calls : call[d].pc = "waiting" => d \in Waiting(o)
  BY <1>1 DEF IInv, OneRefresh, Waiting
<1>3. NoRefresh \in RefreshType /\ NoRefresh.pc = "idle"
  BY NoRefreshType DEF NoRefresh
<1>4. call' \in [Calls -> CallType] /\ \A d \in Calls : call'[d].pc # "waiting"
  BY <1>2 DEF IInv, TypeOK
<1>5. /\ refresh' \in [Calls -> RefreshType]
      /\ \A d \in Calls : refresh'[d].pc = "idle"
  BY <1>1, <1>3 DEF EndRefresh, IInv, TypeOK, OneRefresh
<1>6. TypeOK'
  BY <1>4, <1>5 DEF EndRefresh, IInv, TypeOK
<1>7. QED
  BY <1>4, <1>5, <1>6 DEF EndRefresh, IInv, OneRefresh

\* A call that is rejected has ended.
LEMMA RejectedType ==
  ASSUME IInv, NEW d \in Calls
  PROVE  /\ Rejected(d) \in CallType /\ Rejected(d).pc = "refused"
         /\ Rejected(d).answer = NoAnswer
<1>1. call[d].kind \in Kinds
  BY DEF IInv, TypeOK, CallType
<1>2. QED
  BY <1>1, RestingType DEF Rejected, CallType, Resting

LEMMA ReceiveRefreshIInv ==
  ASSUME IInv, NEW o \in Calls, ReceiveRefresh(o), excused' \subseteq Calls
  PROVE  IInv'
<1> DEFINE n == [d \in Calls |-> IF refresh[o].answer.status = 200 THEN Retried(d)
                                 ELSE Rejected(d)]
<1>1. jar' \in Jars
  BY CookiesType DEF ReceiveRefresh, IInv, TypeOK, RefreshType
<1>2. ASSUME NEW d \in Calls
      PROVE  n[d] \in CallType /\ n[d].pc # "waiting"
  <2>1. call[d].kind \in Kinds
    BY DEF IInv, TypeOK, CallType
  <2>2. Retried(d) \in CallType /\ Retried(d).pc = "sent"
    BY <1>1, <2>1, RestingType DEF Retried, CallType
  <2>3. Rejected(d) \in CallType /\ Rejected(d).pc = "refused"
    BY RejectedType
  <2>4. QED
    BY <2>2, <2>3
<1>3. n \in [Calls -> CallType] /\ \A d \in Calls : n[d].pc # "waiting"
  BY <1>2
<1>4. call' = [d \in Calls |-> IF d \in Waiting(o) THEN n[d] ELSE call[d]]
  BY DEF ReceiveRefresh
<1>5. refresh[o].pc # "idle" /\ EndRefresh(o)
  BY DEF ReceiveRefresh
<1> HIDE DEF n
<1>6. QED
  BY <1>1, <1>3, <1>4, <1>5, EndRefreshIInv

LEMMA LostRefreshIInv ==
  ASSUME IInv, NEW o \in Calls, LostRefresh(o), excused' \subseteq Calls
  PROVE  IInv'
<1> DEFINE n == [d \in Calls |-> Rejected(d)]
<1>1. n \in [Calls -> CallType] /\ \A d \in Calls : n[d].pc # "waiting"
  BY RejectedType
<1>2. call' = [d \in Calls |-> IF d \in Waiting(o) THEN n[d] ELSE call[d]]
  BY DEF LostRefresh
<1>3. refresh[o].pc # "idle" /\ EndRefresh(o) /\ jar' \in Jars
  BY DEF LostRefresh, IInv, TypeOK
<1> HIDE DEF n
<1>4. QED
  BY <1>1, <1>2, <1>3, EndRefreshIInv

\* Cookies expire, tokens are revoked, the page is loaded anew.
LEMMA OutsideIInv ==
  ASSUME IInv, AccessExpires \/ RefreshExpires \/ Revoke \/ Reload, excused' \subseteq Calls
  PROVE  IInv'
<1>1. CASE AccessExpires \/ RefreshExpires
  <2>1. jar' \in Jars
    BY <1>1 DEF AccessExpires, RefreshExpires, IInv, TypeOK, Jars, Token
  <2>2. UNCHANGED <<version, user, call, refresh, refreshFlight>>
    BY <1>1 DEF AccessExpires, RefreshExpires, Calling
  <2>3. TypeOK'
    BY <2>1, <2>2 DEF IInv, TypeOK
  <2>4. QED
    BY <2>2, <2>3 DEF IInv, OneRefresh
<1>2. CASE Revoke
  <2>1. version' \in Versions
    BY <1>2 DEF Revoke, IInv, TypeOK, Versions
  <2>2. UNCHANGED <<jar, user, call, refresh, refreshFlight>>
    BY <1>2 DEF Revoke, Calling
  <2>3. TypeOK'
    BY <2>1, <2>2 DEF IInv, TypeOK
  <2>4. QED
    BY <2>2, <2>3 DEF IInv, OneRefresh
<1>3. CASE Reload
  <2>1. /\ Resting \in CallType /\ Resting.pc = "idle"
        /\ NoRefresh \in RefreshType /\ NoRefresh.pc = "idle"
    BY RestingType, NoRefreshType DEF Resting, NoRefresh
  <2>2. /\ call' \in [Calls -> CallType] /\ \A c \in Calls : call'[c].pc = "idle"
        /\ refresh' \in [Calls -> RefreshType] /\ \A c \in Calls : refresh'[c].pc = "idle"
    BY <1>3, <2>1 DEF Reload
  <2>3. user' \in BOOLEAN /\ refreshFlight' = NoCall /\ UNCHANGED <<jar, version>>
    BY <1>3 DEF Reload
  <2>4. TypeOK'
    BY <2>2, <2>3 DEF IInv, TypeOK
  <2>5. QED
    BY <2>2, <2>3, <2>4 DEF IInv, OneRefresh
<1>4. QED
  BY <1>1, <1>2, <1>3

LEMMA NextIInv == IInv /\ [Next]_vars => IInv'
<1> SUFFICES ASSUME IInv, [Next]_vars PROVE IInv'
  OBVIOUS
<1>1. CASE UNCHANGED vars
  BY <1>1 DEF vars, IInv, TypeOK, OneRefresh
<1>2. CASE Next
  <2>1. excused' \subseteq Calls
    BY <1>2 DEF Next, Excuse
  <2>2. ASSUME NEW c \in Calls, CallStep(c) \/ Lost(c) \/ LostRefresh(c) PROVE IInv'
    BY <2>1, <2>2, ServeIInv, ReceiveIInv, ServeRefreshIInv, ReceiveRefreshIInv, LostIInv,
       LostRefreshIInv DEF CallStep
  <2>3. ASSUME NEW c \in Calls, NEW kind \in Kinds, Send(c, kind) PROVE IInv'
    BY <2>1, <2>3, SendIInv
  <2>4. CASE AccessExpires \/ RefreshExpires \/ Revoke \/ Reload
    BY <2>1, <2>4, OutsideIInv
  <2>5. QED
    BY <1>2, <2>2, <2>3, <2>4 DEF Next, Step
<1>3. QED
  BY <1>1, <1>2

(* The inductive invariant: any number of calls of a tab share one refresh, *)
(* and whoever waits waits for the one that is under way.                   *)
THEOREM Invariance == Spec => []IInv
<1>1. QED
  BY InitIInv, NextIInv, PTL DEF Spec

(* Parallel 401s of refreshAccessToken never start a second refresh, and    *)
(* none of them is left waiting for one that has ended.                     *)
THEOREM SharedRefresh == Spec => []OneRefresh
<1>1. IInv => OneRefresh
  BY DEF IInv
<1>2. QED
  BY <1>1, Invariance, PTL

-----------------------------------------------------------------------------
(* Queries that are refused.                                               *)

LEMMA InitTokens == Init => TokensFollow
BY DEF Init, TokensFollow, CookiesPaired, AnswersSound, QueriesFresh, Sound, InVain, Blank, Busy,
   Resting, NoRefresh, NoAnswer, Answer, NoCookies

\* A busy call that is not excused: the refresh token is valid, and the call
\* was not excused before.
LEMMA Unexcused ==
  ASSUME Excuse, NEW c \in Calls, c \notin excused', call'[c].pc \notin {"idle", "refused"}
  PROVE  Good' /\ (Busy(c) => c \notin excused)
BY DEF Excuse

\* What the browser has after an answer: the cookies it had, or a sound pair.
LEMMA CookiesSound ==
  ASSUME NEW a, Sound(a), Cookies(a)
  PROVE  \/ a.cookies = {} /\ jar' = jar
         \/ a.cookies # {} /\ jar' \in a.cookies /\ jar'.access = jar'.refresh
            /\ \A v \in jar'.refresh : v <= version
<1>1. CASE a.cookies = {}
  BY <1>1 DEF Cookies
<1>2. CASE a.cookies # {}
  <2>1. (CHOOSE j \in a.cookies : TRUE) \in a.cookies
    BY <1>2
  <2>2. jar' \in a.cookies
    BY <1>2, <2>1 DEF Cookies
  <2>3. QED
    BY <1>2, <2>2 DEF Sound
<1>3. QED
  BY <1>1, <1>2

\* One call moves on while the refreshes stand still.
LEMMA CallMoves ==
  ASSUME IInv, TokensFollow, Excuse, version' = version, refresh' = refresh,
         NEW c \in Calls, NEW n \in CallType, call' = [call EXCEPT ![c] = n],
         jar' = jar \/ (jar'.access = jar'.refresh /\ \A v \in jar'.refresh : v <= version),
         Sound(n.answer), n.pc = "answered" /\ n.answer.status = 401 => n.answer.cookies = {},
         n.pc \notin {"idle", "refused"} /\ c \notin excused' /\ n.kind = "query"
           /\ (n.retry \/ InVain) => Fresh(n)
  PROVE  TokensFollow'
<1>1. ASSUME NEW d \in Calls
      PROVE  call'[d] = IF d = c THEN n ELSE call[d]
  BY DEF IInv, TypeOK
<1>2. InVain' = InVain
  BY DEF InVain, Blank
<1>3. CookiesPaired'
  BY <1>2 DEF TokensFollow, CookiesPaired
<1>4. AnswersSound'
  BY <1>1 DEF TokensFollow, AnswersSound, Sound
<1>5. QueriesFresh'
  <2> SUFFICES ASSUME NEW d \in Calls, d \notin excused', call'[d].pc \notin {"idle", "refused"},
                      call'[d].kind = "query", call'[d].retry \/ InVain
               PROVE  Fresh(call[d])'
    BY <1>2 DEF QueriesFresh, Busy
  <2>1. CASE d = c
    <3>1. call'[d] = n
      BY <1>1, <2>1
    <3>2. Fresh(n)
      BY <2>1, <3>1
    <3>3. QED
      BY <3>1, <3>2 DEF Fresh
  <2>2. CASE d # c
    <3>1. call'[d] = call[d]
      BY <1>1, <2>2
    <3>2. d \notin excused
      BY <3>1, Unexcused DEF Busy
    <3>3. Fresh(call[d])
      BY <3>1, <3>2 DEF TokensFollow, QueriesFresh, Busy
    <3>4. QED
      BY <3>1, <3>3 DEF Fresh
  <2>3. QED
    BY <2>1, <2>2
<1>6. QED
  BY <1>3, <1>4, <1>5 DEF TokensFollow

\* The pairs of cookies the server sets.
LEMMA PairsSound ==
  ASSUME IInv, NEW a, a.cookies = {} \/ a.cookies = {Signed} \/ a.cookies = {NoCookies}
  PROVE  Sound(a)
<1>1. version <= version
  BY DEF IInv, TypeOK, Versions
<1>2. Signed.access = Signed.refresh /\ \A v \in Signed.refresh : v <= version
  BY <1>1 DEF Signed
<1>3. NoCookies.access = NoCookies.refresh /\ NoCookies.refresh = {}
  BY DEF NoCookies
<1>4. QED
  BY <1>2, <1>3 DEF Sound

LEMMA NoAnswerSound == Sound(NoAnswer) /\ Sound(Resting.answer) /\ Sound(NoRefresh.answer)
BY DEF Sound, NoAnswer, Answer, Resting, NoRefresh

\* While a refresh is in vain both cookies are there, or the call is excused.
LEMMA SendTokens ==
  ASSUME IInv, TokensFollow, Excuse, NEW c \in Calls, NEW kind \in Kinds, Send(c, kind)
  PROVE  TokensFollow'
<1>1. PICK n : n = [Resting EXCEPT !.pc = "sent", !.kind = kind, !.jar = jar]
  OBVIOUS
<1>2. n \in CallType /\ n.pc = "sent" /\ n.jar = jar /\ ~n.retry /\ n.answer = NoAnswer
  BY <1>1, RestingType DEF CallType, IInv, TypeOK, Resting
<1>3. call' = [call EXCEPT ![c] = n] /\ UNCHANGED <<refresh, jar, version>>
  BY <1>1 DEF Send, Calling
<1>4. c \notin excused' => version \in jar.refresh
  <2>1. call'[c] = n
    BY <1>3 DEF IInv, TypeOK
  <2>2. QED
    BY <1>2, <1>3, <2>1, Unexcused DEF Good
<1>5. c \notin excused' /\ InVain => Fresh(n)
  BY <1>2, <1>4 DEF TokensFollow, CookiesPaired, Fresh
<1>6. QED
  BY <1>2, <1>3, <1>5, NoAnswerSound, CallMoves

\* A query sent with an access token of the present version is accepted.
LEMMA ServeTokens ==
  ASSUME IInv, TokensFollow, Excuse, NEW c \in Calls, Serve(c)
  PROVE  TokensFollow'
<1>1. PICK a \in Answers(call[c].kind, call[c].jar) :
        call' = [call EXCEPT ![c] = [@ EXCEPT !.pc = "answered", !.answer = a]]
  BY DEF Serve
<1>2. PICK n : n = [call[c] EXCEPT !.pc = "answered", !.answer = a]
  OBVIOUS
<1>3. call[c] \in CallType /\ a \in AnswerType
  BY AnswersType DEF IInv, TypeOK, CallType
<1>4. /\ n \in CallType /\ n.pc = "answered" /\ n.answer = a
      /\ n.kind = call[c].kind /\ n.retry = call[c].retry
  BY <1>2, <1>3 DEF CallType
<1>5. call' = [call EXCEPT ![c] = n] /\ UNCHANGED <<refresh, jar, version>>
  BY <1>1, <1>2 DEF Serve, Calling
<1>6. Sound(a) /\ (a.status = 401 => a.cookies = {})
  <2>1. a.cookies = {} \/ a.cookies = {Signed} \/ a.cookies = {NoCookies}
    BY <1>1 DEF Answers, Answer
  <2>2. a.status = 401 => a.cookies = {}
    BY <1>1 DEF Answers, Answer
  <2>3. QED
    BY <2>1, <2>2, PairsSound
<1>7. ASSUME c \notin excused', n.kind = "query", n.retry \/ InVain
      PROVE  Fresh(n)
  <2>1. call'[c] = n
    BY <1>5 DEF IInv, TypeOK
  <2>2. call[c].pc = "sent"
    BY DEF Serve
  <2>3. c \notin excused
    BY <1>4, <1>7, <2>1, <2>2, Unexcused DEF Busy
  <2>4. Fresh(call[c])
    BY <1>4, <1>7, <2>2, <2>3 DEF TokensFollow, QueriesFresh, Busy
  <2>5. a = Answer(200, {}, FALSE)
    BY <1>1, <1>4, <1>7, <2>2, <2>4 DEF Answers, Accepts, Fresh
  <2>6. QED
    BY <1>4, <2>5 DEF Fresh, Answer
<1>8. n.pc \notin {"idle", "refused"} /\ c \notin excused' /\ n.kind = "query"
        /\ (n.retry \/ InVain) => Fresh(n)
  BY <1>7
<1>9. /\ Sound(n.answer)
      /\ n.pc = "answered" /\ n.answer.status = 401 => n.answer.cookies = {}
  BY <1>4, <1>6
<1>10. version' = version /\ refresh' = refresh /\ jar' = jar
  BY <1>5
<1>11. QED
  BY <1>4, <1>5, <1>8, <1>9, <1>10, CallMoves

\* Calls that end.
LEMMA EndsTokens ==
  ASSUME IInv, TokensFollow, Excuse, NEW c \in Calls, NEW n \in CallType,
         n.pc \in {"idle", "refused"}, n.answer = NoAnswer, call' = [call EXCEPT ![c] = n],
         UNCHANGED <<refresh, version>>,
         jar' = jar \/ (jar'.access = jar'.refresh /\ \A v \in jar'.refresh : v <= version)
  PROVE  TokensFollow'
BY NoAnswerSound, CallMoves

\* Who finds the refresh in vain when it joins is excused.
LEMMA AwaitTokens ==
  ASSUME IInv, TokensFollow, Excuse, NEW c \in Calls, call[c].pc = "answered", AwaitRefresh(c),
         Cookies(call[c].answer), version' = version
  PROVE  TokensFollow'
<1>1. PICK n : n = [call[c] EXCEPT !.pc = "waiting", !.on = Flight(c), !.answer = NoAnswer]
  OBVIOUS
<1>2. Flight(c) \in Calls /\ call[c] \in CallType
  BY DEF Flight, IInv, TypeOK
<1>3. /\ n \in CallType /\ n.pc = "waiting" /\ n.answer = NoAnswer
      /\ n.kind = call[c].kind /\ n.retry = call[c].retry
  BY <1>1, <1>2, NoAnswerType DEF CallType
<1>4. call[c].answer.status = 401 /\ ~call[c].retry /\ call' = [call EXCEPT ![c] = n]
  BY <1>1 DEF AwaitRefresh
<1>5. jar' = jar
  <2>1. call[c].answer.cookies = {}
    BY <1>4 DEF TokensFollow, AnswersSound
  <2>2. QED
    BY <2>1 DEF Cookies
<1>6. ASSUME NEW d \in Calls
      PROVE  call'[d] = IF d = c THEN n ELSE call[d]
  BY <1>4 DEF IInv, TypeOK
<1>7. CASE Flight(c) # c
  <2>1. refresh' = refresh
    BY <1>7 DEF AwaitRefresh
  <2>2. ASSUME c \notin excused', n.kind = "query", InVain
        PROVE  FALSE
    <3>1. c \notin excused
      BY <1>3, <1>6, <2>2, Unexcused DEF Busy
    <3>2. Fresh(call[c])
      BY <1>3, <2>2, <3>1 DEF TokensFollow, QueriesFresh, Busy
    <3>3. QED
      BY <1>4, <3>2 DEF Fresh
  <2>3. QED
    BY <1>3, <1>4, <1>5, <2>1, <2>2, NoAnswerSound, CallMoves
<1>8. CASE Flight(c) = c
  <2>1. PICK r : r = [NoRefresh EXCEPT !.pc = "sent", !.jar = jar]
    OBVIOUS
  <2>2. r.pc = "sent" /\ r.jar = jar /\ r.answer = NoAnswer
    BY <2>1 DEF NoRefresh
  <2>3. ASSUME NEW d \in Calls
        PROVE  refresh'[d] = IF d = c THEN r ELSE refresh[d]
    BY <1>8, <2>1 DEF AwaitRefresh, IInv, TypeOK
  <2>4. \A d \in Calls \ {c} : refresh[d].pc = "idle"
    BY <1>8 DEF Flight, IInv, OneRefresh
  <2>5. InVain' <=> jar.refresh = {}
    BY <2>2, <2>3, <2>4 DEF InVain, Blank
  <2>6. CookiesPaired'
    BY <1>5, <2>5 DEF TokensFollow, CookiesPaired
  <2>7. AnswersSound'
    BY <1>3, <1>6, <2>2, <2>3, NoAnswerSound DEF TokensFollow, AnswersSound, Sound
  <2>8. QueriesFresh'
    <3> SUFFICES ASSUME NEW d \in Calls, d \notin excused',
                        call'[d].pc \notin {"idle", "refused"},
                        call'[d].kind = "query", call'[d].retry \/ InVain'
                 PROVE  Fresh(call[d])'
      BY DEF QueriesFresh, Busy
    <3>1. Good' /\ (Busy(d) => d \notin excused)
      BY Unexcused
    <3>2. ~InVain'
      BY <1>5, <2>5, <3>1 DEF Good
    <3>3. d # c /\ call'[d] = call[d]
      BY <1>3, <1>4, <1>6, <3>2
    <3>4. Fresh(call[d])
      BY <3>1, <3>2, <3>3 DEF TokensFollow, QueriesFresh, Busy
    <3>5. QED
      BY <3>3, <3>4 DEF Fresh
  <2>9. QED
    BY <2>6, <2>7, <2>8 DEF TokensFollow
<1>9. QED
  BY <1>7, <1>8

LEMMA ReceiveTokens ==
  ASSUME IInv, TokensFollow, Excuse, NEW c \in Calls, Receive(c)
  PROVE  TokensFollow'
<1>1. Sound(call[c].answer) /\ Cookies(call[c].answer) /\ version' = version
  BY DEF Receive, TokensFollow, AnswersSound
<1>2. jar' = jar \/ (jar'.access = jar'.refresh /\ \A v \in jar'.refresh : v <= version)
  BY <1>1, CookiesSound
<1>3. CASE Settle(c)
  <2>1. call' = [call EXCEPT ![c] = Resting] /\ refresh' = refresh
    BY <1>3 DEF Settle, Calling
  <2>2. Resting \in CallType /\ Resting.pc = "idle" /\ Resting.answer = NoAnswer
    BY RestingType DEF Resting
  <2>3. QED
    BY <1>1, <1>2, <2>1, <2>2, EndsTokens
<1>4. CASE Refused(c)
  <2>1. PICK n : n = [Resting EXCEPT !.pc = "refused", !.kind = call[c].kind]
    OBVIOUS
  <2>2. n \in CallType /\ n.pc = "refused" /\ n.answer = NoAnswer
    BY <2>1, RestingType DEF CallType, IInv, TypeOK, Resting
  <2>3. call' = [call EXCEPT ![c] = n] /\ refresh' = refresh
    BY <1>4, <2>1 DEF Refused, Calling
  <2>4. QED
    BY <1>1, <1>2, <2>2, <2>3, EndsTokens
<1>5. CASE AwaitRefresh(c)
  BY <1>1, <1>5, AwaitTokens DEF Receive
<1>6. QED
  BY <1>3, <1>4, <1>5 DEF Receive

LEMMA LostTokens ==
  ASSUME IInv, TokensFollow, Excuse, NEW c \in Calls, Lost(c)
  PROVE  TokensFollow'
<1>1. call' = [call EXCEPT ![c] = Resting] /\ UNCHANGED <<refresh, jar, version>>
  BY DEF Lost, Calling
<1>2. Resting \in CallType /\ Resting.pc = "idle" /\ Resting.answer = NoAnswer
  BY RestingType DEF Resting
<1>3. QED
  BY <1>1, <1>2, EndsTokens

\* Only a refresh that was sent without its cookie is answered in vain.
LEMMA ServeRefreshTokens ==
  ASSUME IInv, TokensFollow, Excuse, NEW o \in Calls, ServeRefresh(o)
  PROVE  TokensFollow'
<1> DEFINE token == refresh[o].jar.refresh
<1>1. PICK a \in Renewal(token) :
        refresh' = [refresh EXCEPT ![o] = [@ EXCEPT !.pc = "answered", !.answer = a]]
  BY DEF ServeRefresh
<1>2. /\ refresh[o].pc = "sent" /\ UNCHANGED <<jar, version, call>>
      /\ refresh' = [refresh EXCEPT ![o] = [@ EXCEPT !.pc = "answered", !.answer = a]]
  BY <1>1 DEF ServeRefresh
<1>3. PICK r : r = [refresh[o] EXCEPT !.pc = "answered", !.answer = a]
  OBVIOUS
<1>4. r.pc = "answered" /\ r.answer = a
  BY <1>3 DEF IInv, TypeOK, RefreshType
<1>5. ASSUME NEW d \in Calls
      PROVE  refresh'[d] = IF d = o THEN r ELSE refresh[d]
  BY <1>2, <1>3 DEF IInv, TypeOK
<1>6. \/ a.status = 200 /\ a.cookies = {Signed}
      \/ a.status = 401 /\ token = {} /\ a.cookies = {}
      \/ a.status = 401 /\ a.cookies = {NoCookies}
  BY <1>1 DEF Renewal, Answer
<1>7. Sound(a)
  BY <1>6, PairsSound
<1>8. InVain' => InVain
  <2>1. Blank(r) => Blank(refresh[o])
    BY <1>2, <1>4, <1>6 DEF Blank
  <2>2. QED
    BY <1>5, <2>1 DEF InVain, Blank
<1>9. CookiesPaired'
  BY <1>2, <1>8 DEF TokensFollow, CookiesPaired
<1>10. AnswersSound'
  <2>1. \A d \in Calls : Sound(call[d].answer)' /\ Sound(refresh[d].answer)'
    BY <1>2, <1>4, <1>5, <1>7 DEF TokensFollow, AnswersSound, Sound
  <2>2. ASSUME NEW d \in Calls, refresh'[d].pc = "answered"
        PROVE  IF refresh'[d].answer.status = 200 THEN refresh'[d].answer.cookies # {}
                                                  ELSE refresh'[d].answer.cookies \subseteq {NoCookies}
    BY <1>4, <1>5, <1>6, <2>2 DEF TokensFollow, AnswersSound
  <2>3. \A d \in Calls :
          call[d].pc = "answered" /\ call[d].answer.status = 401 => call[d].answer.cookies = {}
    BY DEF TokensFollow, AnswersSound
  <2>4. QED
    BY <1>2, <2>1, <2>2, <2>3 DEF AnswersSound
<1>11. QueriesFresh'
  <2> SUFFICES ASSUME NEW d \in Calls, d \notin excused', Busy(d), call[d].kind = "query",
                      call[d].retry \/ InVain
               PROVE  Fresh(call[d])'
    BY <1>2, <1>8 DEF QueriesFresh, Busy
  <2>1. d \notin excused
    BY <1>2, Unexcused DEF Busy
  <2>2. Fresh(call[d])
    BY <2>1 DEF TokensFollow, QueriesFresh
  <2>3. QED
    BY <1>2, <2>2 DEF Fresh
<1>12. QED
  BY <1>9, <1>10, <1>11 DEF TokensFollow

\* The refresh has ended: who waited is sent once more with a new pair, or ends.
LEMMA EndRefreshTokens ==
  ASSUME IInv, TokensFollow, Excuse, NEW o \in Calls, refresh[o].pc # "idle", EndRefresh(o),
         jar' = jar \/ (jar'.access = jar'.refresh /\ \A v \in jar'.refresh : v <= version),
         NEW n \in [Calls -> CallType],
         \A d \in Calls : /\ n[d].answer = NoAnswer
                          /\ \/ n[d].pc \in {"idle", "refused"}
                             \/ /\ n[d].pc = "sent" /\ n[d].jar = jar'
                                /\ jar'.access = jar'.refresh,
         call' = [d \in Calls |-> IF d \in Waiting(o) THEN n[d] ELSE call[d]]
  PROVE  TokensFollow'
<1>1. /\ version' = version
      /\ \A d \in Calls : refresh'[d] = IF d = o THEN NoRefresh ELSE refresh[d]
  BY DEF EndRefresh, IInv, TypeOK
<1>2. \A d \in Calls \ {o} : refresh[d].pc = "idle"
  BY DEF IInv, OneRefresh
<1>3. \A d \in Calls : refresh'[d].pc = "idle"
  BY <1>1, <1>2 DEF NoRefresh
<1>4. ~InVain'
  BY <1>3 DEF InVain, Blank
<1>5. CookiesPaired'
  BY <1>1, <1>4 DEF TokensFollow, CookiesPaired
<1>6. \A d \in Calls : call'[d] = n[d] \/ call'[d] = call[d]
  OBVIOUS
<1>7. AnswersSound'
  <2>1. \A d \in Calls : Sound(call[d].answer)' /\ Sound(refresh[d].answer)'
    BY <1>1, <1>6, NoAnswerSound DEF TokensFollow, AnswersSound, Sound
  <2>2. \A d \in Calls : n[d].pc # "answered"
    OBVIOUS
  <2>3. QED
    BY <1>3, <1>6, <2>1, <2>2 DEF TokensFollow, AnswersSound
<1>8. QueriesFresh'
  <2> SUFFICES ASSUME NEW d \in Calls, d \notin excused', call'[d].pc \notin {"idle", "refused"},
                      call'[d].kind = "query", call'[d].retry
               PROVE  Fresh(call[d])'
    BY <1>4 DEF QueriesFresh, Busy
  <2>1. Good' /\ (Busy(d) => d \notin excused)
    BY Unexcused
  <2>2. CASE call'[d] = n[d]
    <3>1. n[d].pc = "sent" /\ version' \in n[d].jar.access
      BY <2>1, <2>2 DEF Good
    <3>2. QED
      BY <2>2, <3>1 DEF Fresh
  <2>3. CASE call'[d] = call[d]
    <3>1. Fresh(call[d])
      BY <2>1, <2>3 DEF TokensFollow, QueriesFresh, Busy
    <3>2. QED
      BY <1>1, <2>3, <3>1 DEF Fresh
  <2>4. QED
    BY <1>6, <2>2, <2>3
<1>9. QED
  BY <1>5, <1>7, <1>8 DEF TokensFollow

LEMMA ReceiveRefreshTokens ==
  ASSUME IInv, TokensFollow, Excuse, NEW o \in Calls, ReceiveRefresh(o)
  PROVE  TokensFollow'
<1>1. PICK n : n = [d \in Calls |-> IF refresh[o].answer.status = 200 THEN Retried(d)
                                    ELSE Rejected(d)]
  OBVIOUS
<1>2. jar' \in Jars
  BY CookiesType DEF ReceiveRefresh, IInv, TypeOK, RefreshType
<1>3. /\ refresh[o].pc = "answered" /\ Sound(refresh[o].answer) /\ Cookies(refresh[o].answer)
      /\ refresh[o].answer.status = 200 => refresh[o].answer.cookies # {}
  BY DEF ReceiveRefresh, TokensFollow, AnswersSound
<1>4. /\ jar' = jar \/ (jar'.access = jar'.refresh /\ \A v \in jar'.refresh : v <= version)
      /\ refresh[o].answer.status = 200 => jar'.access = jar'.refresh
  BY <1>3, CookiesSound
<1>5. ASSUME NEW d \in Calls
      PROVE  /\ n[d] \in CallType /\ n[d].answer = NoAnswer
             /\ \/ n[d].pc \in {"idle", "refused"}
                \/ n[d].pc = "sent" /\ n[d].jar = jar' /\ jar'.access = jar'.refresh
  <2>1. call[d].kind \in Kinds
    BY DEF IInv, TypeOK, CallType
  <2>2. CASE refresh[o].answer.status = 200
    <3>1. n[d] = Retried(d)
      BY <1>1, <2>2
    <3>2. /\ Retried(d) \in CallType /\ Retried(d).pc = "sent" /\ Retried(d).jar = jar'
          /\ Retried(d).answer = NoAnswer
      BY <1>2, <2>1, RestingType DEF Retried, CallType, Resting
    <3>3. QED
      BY <1>4, <2>2, <3>1, <3>2
  <2>3. CASE refresh[o].answer.status # 200
    BY <1>1, <2>3, RejectedType
  <2>4. QED
    BY <2>2, <2>3
<1>6. n \in [Calls -> CallType]
  BY <1>1, <1>5
<1>7. /\ call' = [d \in Calls |-> IF d \in Waiting(o) THEN n[d] ELSE call[d]]
      /\ refresh[o].pc # "idle" /\ EndRefresh(o)
  BY <1>1, <1>3 DEF ReceiveRefresh
<1>8. QED
  BY <1>4, <1>5, <1>6, <1>7, EndRefreshTokens

LEMMA LostRefreshTokens ==
  ASSUME IInv, TokensFollow, Excuse, NEW o \in Calls, LostRefresh(o)
  PROVE  TokensFollow'
<1>1. PICK n : n = [d \in Calls |-> Rejected(d)]
  OBVIOUS
<1>2. /\ n \in [Calls -> CallType]
      /\ \A d \in Calls : n[d].pc = "refused" /\ n[d].answer = NoAnswer
  BY <1>1, RejectedType
<1>3. /\ call' = [d \in Calls |-> IF d \in Waiting(o) THEN n[d] ELSE call[d]]
      /\ refresh[o].pc # "idle" /\ EndRefresh(o) /\ jar' = jar
  BY <1>1 DEF LostRefresh
<1>4. QED
  BY <1>2, <1>3, EndRefreshTokens

\* Cookies expire while no refresh is under way; a revocation excuses everyone.
LEMMA OutsideTokens ==
  ASSUME IInv, TokensFollow, Excuse, AccessExpires \/ RefreshExpires \/ Revoke \/ Reload
  PROVE  TokensFollow'
<1>1. CASE AccessExpires \/ RefreshExpires
  <2>1. /\ UNCHANGED <<version, call, refresh>> /\ refreshFlight = NoCall
        /\ jar'.refresh \subseteq jar.refresh
        /\ jar'.refresh = {} => jar'.access = {}
    BY <1>1 DEF AccessExpires, RefreshExpires, Calling, TokensFollow, CookiesPaired, IInv, TypeOK, Jars
  <2>2. ~InVain /\ ~InVain'
    BY <2>1 DEF InVain, Blank, IInv, OneRefresh
  <2>3. CookiesPaired' /\ AnswersSound'
    BY <2>1, <2>2 DEF TokensFollow, CookiesPaired, AnswersSound, Sound
  <2>4. QueriesFresh'
    <3> SUFFICES ASSUME NEW d \in Calls, d \notin excused', Busy(d), call[d].kind = "query",
                        call[d].retry
                 PROVE  Fresh(call[d])'
      BY <2>1, <2>2 DEF QueriesFresh, Busy
    <3>1. d \notin excused
      BY <2>1, Unexcused DEF Busy
    <3>2. QED
      BY <2>1, <3>1 DEF TokensFollow, QueriesFresh, Fresh
  <2>5. QED
    BY <2>3, <2>4 DEF TokensFollow
<1>2. CASE Revoke
  <2>1. version' = version + 1 /\ version \in Nat /\ UNCHANGED <<jar, call, refresh>>
    BY <1>2 DEF Revoke, Calling, IInv, TypeOK, Versions
  <2>2. \A j \in Jars : \A v \in j.refresh : v \in Nat
    BY DEF Jars, Token, Versions
  <2>3. \A v \in jar.refresh : v < version'
    BY <2>1, <2>2 DEF TokensFollow, CookiesPaired, IInv, TypeOK
  <2>4. \A v \in jar.refresh : v <= version' /\ v # version'
    <3> SUFFICES ASSUME NEW v \in jar.refresh PROVE v <= version' /\ v # version'
      OBVIOUS
    <3>1. v \in Nat /\ v < version'
      BY <2>2, <2>3 DEF IInv, TypeOK
    <3>2. QED
      BY <2>1, <3>1
  <2>5. CookiesPaired'
    BY <2>1, <2>4 DEF TokensFollow, CookiesPaired, InVain, Blank
  <2>6. ASSUME NEW a \in AnswerType, Sound(a)
        PROVE  \A j \in a.cookies : j.access = j.refresh /\ \A v \in j.refresh : v <= version'
    <3> SUFFICES ASSUME NEW j \in a.cookies, NEW v \in j.refresh
                 PROVE  v <= version'
      BY <2>6 DEF Sound
    <3>1. v \in Nat /\ v <= version
      BY <2>2, <2>6 DEF Sound, AnswerType
    <3>2. QED
      BY <2>1, <3>1
  <2>7. \A c \in Calls : call[c].answer \in AnswerType /\ refresh[c].answer \in AnswerType
    BY DEF IInv, TypeOK, CallType, RefreshType
  <2>8. AnswersSound'
    BY <2>1, <2>6, <2>7 DEF TokensFollow, AnswersSound, Sound
  <2>9. QueriesFresh'
    <3> SUFFICES ASSUME NEW d \in Calls, d \notin excused', call'[d].pc \notin {"idle", "refused"}
                 PROVE  FALSE
      BY DEF QueriesFresh, Busy
    <3>1. version' \in jar.refresh
      BY <2>1, Unexcused DEF Good
    <3>2. QED
      BY <2>4, <3>1
  <2>10. QED
    BY <2>5, <2>8, <2>9 DEF TokensFollow
<1>3. CASE Reload
  <2>1. /\ \A c \in Calls : call'[c] = Resting /\ refresh'[c] = NoRefresh
        /\ UNCHANGED <<jar, version>>
    BY <1>3 DEF Reload
  <2>2. Resting.pc = "idle" /\ NoRefresh.pc = "idle"
    BY DEF Resting, NoRefresh
  <2>3. ~InVain'
    BY <2>1, <2>2 DEF InVain, Blank
  <2>4. CookiesPaired' /\ QueriesFresh'
    BY <2>1, <2>2, <2>3 DEF TokensFollow, CookiesPaired, QueriesFresh, Busy
  <2>5. AnswersSound'
    BY <2>1, <2>2, NoAnswerSound DEF AnswersSound, Sound
  <2>6. QED
    BY <2>4, <2>5 DEF TokensFollow
<1>4. QED
  BY <1>1, <1>2, <1>3

LEMMA NextTokens == IInv /\ TokensFollow /\ [Next]_vars => TokensFollow'
<1> SUFFICES ASSUME IInv, TokensFollow, [Next]_vars PROVE TokensFollow'
  OBVIOUS
<1>1. CASE UNCHANGED vars
  BY <1>1 DEF vars, TokensFollow, CookiesPaired, AnswersSound, QueriesFresh, Sound, InVain, Blank,
     Busy, Fresh
<1>2. CASE Next
  <2>1. Excuse
    BY <1>2 DEF Next
  <2>2. ASSUME NEW c \in Calls, CallStep(c) \/ Lost(c) \/ LostRefresh(c) PROVE TokensFollow'
    BY <2>1, <2>2, ServeTokens, ReceiveTokens, ServeRefreshTokens, ReceiveRefreshTokens,
       LostTokens, LostRefreshTokens DEF CallStep
  <2>3. ASSUME NEW c \in Calls, NEW kind \in Kinds, Send(c, kind) PROVE TokensFollow'
    BY <2>1, <2>3, SendTokens
  <2>4. CASE AccessExpires \/ RefreshExpires \/ Revoke \/ Reload
    BY <2>1, <2>4, OutsideTokens
  <2>5. QED
    BY <1>2, <2>2, <2>3, <2>4 DEF Next, Step
<1>3. QED
  BY <1>1, <1>2

(* In every reachable state tokens are paired and answers to queries that   *)
(* are not excused are good.                                                *)
THEOREM Tokens == Spec => []TokensFollow
<1>1. QED
  BY InitTokens, NextTokens, Invariance, PTL DEF Spec

\* Only an answer refuses a call, its own or that of the refresh it waits for, or
\* the loss of that refresh.
LEMMA Refusals ==
  ASSUME IInv, Step, NEW c \in Calls, call[c].pc # "refused", call'[c].pc = "refused"
  PROVE  \/ Receive(c) /\ Refused(c)
         \/ \E o \in Calls : ReceiveRefresh(o) /\ c \in Waiting(o)
         \/ \E o \in Calls : c \in Waiting(o) /\ LostRefresh(o)
<1>1. Resting.pc = "idle"
  BY DEF Resting
<1>2. call \in [Calls -> CallType] /\ call[c] \in CallType
  BY DEF IInv, TypeOK
<1>3. ASSUME NEW d \in Calls, NEW kind \in Kinds, Send(d, kind) PROVE FALSE
  BY <1>2, <1>3 DEF Send, Resting
<1>4. ASSUME NEW d \in Calls, Serve(d) PROVE FALSE
  <2>1. PICK a : call' = [call EXCEPT ![d] = [@ EXCEPT !.pc = "answered", !.answer = a]]
    BY <1>4 DEF Serve
  <2>2. [call[d] EXCEPT !.pc = "answered", !.answer = a].pc = "answered"
    BY <1>2 DEF CallType
  <2>3. QED
    BY <1>2, <2>1, <2>2
<1>5. ASSUME NEW d \in Calls, Lost(d) \/ LostRefresh(d)
      PROVE  LostRefresh(d) /\ c \in Waiting(d)
  BY <1>1, <1>2, <1>5 DEF Lost, LostRefresh
<1>6. ASSUME NEW d \in Calls, ServeRefresh(d) PROVE FALSE
  BY <1>6 DEF ServeRefresh
<1>7. CASE AccessExpires \/ RefreshExpires \/ Revoke \/ Reload
  BY <1>1, <1>7 DEF AccessExpires, RefreshExpires, Revoke, Reload
<1>8. ASSUME NEW d \in Calls, Receive(d) PROVE d = c /\ Refused(c)
  <2>1. CASE Settle(d)
    BY <1>1, <1>2, <2>1 DEF Settle
  <2>2. CASE AwaitRefresh(d)
    <3> DEFINE n == [call[d] EXCEPT !.pc = "waiting", !.on = Flight(d), !.answer = NoAnswer]
    <3>1. n.pc = "waiting"
      BY <1>2 DEF CallType
    <3>2. call' = [call EXCEPT ![d] = n]
      BY <2>2 DEF AwaitRefresh
    <3> HIDE DEF n
    <3>3. QED
      BY <1>2, <3>1, <3>2
  <2>3. CASE Refused(d)
    <3>1. d = c
      BY <1>2, <2>3 DEF Refused
    <3>2. QED
      BY <2>3, <3>1
  <2>4. QED
    BY <1>8, <2>1, <2>2, <2>3 DEF Receive
<1>9. ASSUME NEW o \in Calls, ReceiveRefresh(o) PROVE c \in Waiting(o)
  BY <1>9 DEF ReceiveRefresh
<1>10. QED
  BY <1>3, <1>4, <1>5, <1>6, <1>7, <1>8, <1>9 DEF Step, CallStep

(* The interceptor of client.ts: a query ends with a 401 only if the        *)
(* browser was without a valid refresh token since it was sent, or if the   *)
(* refresh it waited for was lost; access tokens that expire, parallel      *)
(* calls and shared refreshes do not show.                                  *)
THEOREM QueriesRefused == Spec => RefusedWithReason
<1>1. ASSUME IInv, TokensFollow, Next, NEW c \in Calls,
             call[c].pc # "refused", call'[c].pc = "refused", call[c].kind = "query",
             c \notin excused, ~\E o \in Calls : c \in Waiting(o) /\ LostRefresh(o)
      PROVE  ~Good'
  <2>1. Step
    BY <1>1 DEF Next
  <2>2. CASE Receive(c) /\ Refused(c)
    <3>1. Fresh(call[c])
      BY <1>1, <2>2 DEF Receive, Refused, TokensFollow, QueriesFresh, Busy
    <3>2. QED
      BY <2>2, <3>1 DEF Receive, Refused, Fresh
  <2>3. ASSUME NEW o \in Calls, ReceiveRefresh(o), c \in Waiting(o)
        PROVE  ~Good'
    <3>1. call[c].pc = "waiting"
      BY <2>3 DEF Waiting
    <3>2. refresh[o].answer.status # 200
      BY <1>1, <2>3 DEF ReceiveRefresh, Retried, Resting
    <3>3. ~InVain
      BY <1>1, <3>1 DEF TokensFollow, QueriesFresh, Fresh, Busy
    <3>4. refresh[o].answer.cookies = {NoCookies}
      BY <1>1, <2>3, <3>2, <3>3 DEF ReceiveRefresh, TokensFollow, AnswersSound, InVain, Blank
    <3>5. jar' = NoCookies
      BY <2>3, <3>4 DEF ReceiveRefresh, Cookies
    <3>6. QED
      BY <3>5 DEF Good, NoCookies
  <2>4. QED
    BY <1>1, <2>1, <2>2, <2>3, Refusals
<1>2. IInv /\ TokensFollow /\ [Next]_vars =>
        [\A c \in Calls :
           call[c].pc # "refused" /\ call'[c].pc = "refused" /\ call[c].kind = "query"
           => \/ c \in excused \/ ~Good'
              \/ \E o \in Calls : c \in Waiting(o) /\ LostRefresh(o)]_vars
  BY <1>1
<1>3. QED
  BY <1>2, Invariance, Tokens, PTL DEF Spec, RefusedWithReason

-----------------------------------------------------------------------------
(* The pages: any number of slow keys, of mutations and queries in flight   *)
(* and of changes made elsewhere.  First the tables: but for the mutations  *)
(* in Untold, a page invalidates all it shows of what it changes, in the    *)
(* mutation's one or two batches.                                           *)

HIDE SessionOK DEF SessionOK

LEMMA BatchesOfMutation ==
  ASSUME NEW o \in Ops
  PROVE  /\ Len(Mutations[o].invalidates) \in 1..2
         /\ DOMAIN Mutations[o].invalidates = 1..Len(Mutations[o].invalidates)
<1> USE DEF Ops, Mutations, Mutation, InvalidateAll, Lifecycle, CreateBot, DeleteBot,
            ImportWallet, CreateGroup, SubmitRequest, CancelRequest, ApproveRequest,
            RejectRequest, OverrideUserLimit, ToggleActive, Setup2fa, Verify2fa,
            UpdateProfile
<1>1. o \in {"lifecycle", "create", "delete", "import", "group", "submit", "cancel",
             "approve", "reject", "override", "toggle", "setup", "verify", "profile"}
  OBVIOUS
<1>2. CASE o \in {"lifecycle", "create", "delete", "import", "group"}
  BY <1>2
<1>3. CASE o \in {"submit", "cancel", "approve", "reject"}
  BY <1>3
<1>4. CASE o \in {"override", "toggle", "setup", "verify", "profile"}
  BY <1>4
<1>5. QED
  BY <1>1, <1>2, <1>3, <1>4

\* The keys a mutation invalidates, in whichever batch.
Told(o) == UNION {Mutations[o].invalidates[n] : n \in DOMAIN Mutations[o].invalidates}

\* The facts a mutation writes and the keys it invalidates, mutation by mutation.
LEMMA ToldOf ==
  /\ Told("lifecycle") = {"bots", "bot"} /\ Told("create") = {"bots"} /\ Told("delete") = {"bots"}
  /\ Told("import") = {"wallets"} /\ Told("group") = {"walletGroups"}
  /\ Told("submit") = {"myLimitRequests", "adminPendingCount"}
  /\ Told("cancel") = {"myLimitRequests", "adminPendingCount"}
  /\ \A o \in {"approve", "reject"} :
       Told(o) = {"adminRequests", "adminRequestsPending", "adminPendingCount",
                  "adminStats", "adminUsers", "adminUser"}
  /\ Told("override") = {"adminUser"} /\ Told("toggle") = {"adminUser"}
  /\ Told("verify") = {"me"} /\ Told("profile") = {"me"}
<1> USE DEF Told, Mutations, Mutation
<1>1. \A S : UNION {<<S>>[n] : n \in DOMAIN <<S>>} = S
  <2>1. \A S : DOMAIN <<S>> = {1} /\ <<S>>[1] = S
    OBVIOUS
  <2>2. QED
    BY <2>1
<1>2. \A S, T : UNION {<<S, T>>[n] : n \in DOMAIN <<S, T>>} = S \union T
  <2>1. \A S, T : DOMAIN <<S, T>> = {1, 2} /\ <<S, T>>[1] = S /\ <<S, T>>[2] = T
    OBVIOUS
  <2>2. QED
    BY <2>1
<1>3. Told("lifecycle") = {"bots", "bot"}
  BY <1>2 DEF Lifecycle
<1>4. Told("create") = {"bots"} /\ Told("delete") = {"bots"}
  BY <1>1 DEF CreateBot, DeleteBot
<1>5. Told("import") = {"wallets"} /\ Told("group") = {"walletGroups"}
  BY <1>1 DEF ImportWallet, CreateGroup
<1>6. /\ Told("submit") = {"myLimitRequests", "adminPendingCount"}
      /\ Told("cancel") = {"myLimitRequests", "adminPendingCount"}
  BY <1>2 DEF SubmitRequest, CancelRequest
<1>7. \A o \in {"approve", "reject"} :
        Told(o) = {"adminRequests", "adminRequestsPending", "adminPendingCount",
                  "adminStats", "adminUsers", "adminUser"}
  BY <1>1 DEF ApproveRequest, RejectRequest, InvalidateAll
<1>8. Told("override") = {"adminUser"} /\ Told("toggle") = {"adminUser"}
  BY <1>1 DEF OverrideUserLimit, ToggleActive
<1>9. Told("verify") = {"me"} /\ Told("profile") = {"me"}
  BY <1>1 DEF Verify2fa, UpdateProfile
<1>10. QED
  BY <1>3, <1>4, <1>5, <1>6, <1>7, <1>8, <1>9

\* What a page shows and how much of it a mutation it offers invalidates.
Covers(r, p) ==
  \A k \in (p.shows \union Layout[r]) \ Polled, o \in DOMAIN p.offers \ Untold :
    ReadsWritesOf(k, o) => k \in Told(o)

LEMMA TraderPagesCover ==
  ASSUME NEW p \in DOMAIN TraderRoutes
  PROVE  Covers("trader", TraderRoutes[p])
<1> USE ToldOf DEF Covers, Untold, Page, Layout, TraderLayout, Polled, ReadsWritesOf, Reads,
        Mutations, Mutation
<1>1. Covers("trader", Dashboard) /\ Covers("trader", Analytics)
  BY DEF Dashboard, Analytics, Nothing
<1>2. Covers("trader", Bots)
  BY DEF Bots, BotCard, Lifecycle, CreateBot, DeleteBot, ListBots, ListGroups, ListMyRequests
<1>3. Covers("trader", BotDetail)
  BY DEF BotDetail, Lifecycle, GetBot, ListBotTransactions, ListMyRequests
<1>4. Covers("trader", Wallets)
  BY DEF Wallets, ImportWallet, CreateGroup, ListWallets, ListMyRequests
<1>5. Covers("trader", TraderLimitRequest)
  BY DEF TraderLimitRequest, SubmitRequest, CancelRequest, ListMyRequests
<1>6. Covers("trader", Settings)
  BY DEF Settings, Verify2fa, UpdateProfile, Me, ListMyRequests
<1>7. QED
  BY <1>1, <1>2, <1>3, <1>4, <1>5, <1>6 DEF TraderRoutes

LEMMA AdminPagesCover ==
  ASSUME NEW p \in DOMAIN AdminRoutes
  PROVE  Covers("admin", AdminRoutes[p])
<1> USE ToldOf DEF Covers, Untold, Page, Layout, AdminLayout, Polled, ReadsWritesOf, Reads,
        Mutations, Mutation
<1>1. Covers("admin", AdminTraders) /\ Covers("admin", AdminBots) /\ Covers("admin", AdminLogs)
  BY DEF AdminTraders, AdminBots, AdminLogs, Nothing
<1>2. Covers("admin", AdminDashboard)
  BY DEF AdminDashboard, ApproveRequest, RejectRequest, PlatformStats, ListLimitRequests, ListUsers
<1>3. Covers("admin", AdminTraderDetail)
  BY DEF AdminTraderDetail, OverrideUserLimit, ToggleActive, ApproveRequest, RejectRequest, GetUser
<1>4. Covers("admin", AdminRequests)
  BY DEF AdminRequests, ApproveRequest, RejectRequest, ListLimitRequests
<1>5. Covers("admin", Settings)
  BY DEF Settings, Verify2fa, UpdateProfile, Me
<1>6. QED
  BY <1>1, <1>2, <1>3, <1>4, <1>5 DEF AdminRoutes

\* The keys queried are keys, and a mutation offered is a mutation.
LEMMA RoutesTyped ==
  ASSUME NEW r \in DOMAIN Routes
  PROVE  /\ "dashboard" \in DOMAIN Routes[r] /\ Layout[r] \subseteq Keys
         /\ \A p \in DOMAIN Routes[r] : /\ Routes[r][p].shows \subseteq Keys
                                        /\ DOMAIN Routes[r][p].offers \subseteq Ops
<1> USE DEF Routes, Layout, Keys, Ops, Reads, Mutations, Page, Nothing, Settings
<1>1. CASE r = "trader"
  BY <1>1 DEF TraderRoutes, TraderLayout, Dashboard, Bots, BotCard, BotDetail, Wallets,
              Analytics, TraderLimitRequest
<1>2. CASE r = "admin"
  BY <1>2 DEF AdminRoutes, AdminLayout, AdminDashboard, AdminTraders, AdminTraderDetail,
              AdminRequests, AdminBots, AdminLogs
<1>3. QED
  BY <1>1, <1>2

-----------------------------------------------------------------------------
(* The inductive invariant of the pages.                                    *)

\* A mutation has changed what k shows and has not come to the batch k is in.
Owing(k, o) ==
  /\ ReadsWritesOf(k, o)
  /\ \E n \in DOMAIN Mutations[o].invalidates :
       /\ k \in Mutations[o].invalidates[n]
       /\ act[o].at = "done" \/ (act[o].at = "settling" /\ act[o].batch < n)

Owed(k) == \E o \in Ops : Owing(k, o)

\* Content or an answer behind the user's changes is still owed its invalidation.
NotForgotten(k) ==
  /\ entry[k].fetch = "stale" => Owed(k)
  /\ entry[k].data = "stale" => entry[k].fetch # "idle" \/ Owed(k)

PagesInv ==
  /\ PagesTypeOK
  /\ \A k \in slow \ Mounted : entry[k].data = "none"
  /\ \A k \in slow \ Polled : NotForgotten(k)

EntryType == [data : Content, fetch : Fetch]
ActType == [at : {"idle", "sent", "done", "settling"}, batch : 0..2, waits : SUBSET Keys]

\* The records the actions write.
LEMMA EntryTypes ==
  /\ Empty \in EntryType /\ Loading \in EntryType /\ Idle \in ActType
  /\ Empty.data = "none" /\ Empty.fetch = "idle" /\ Idle.at = "idle"
  /\ Loading.data = "none" /\ Loading.fetch = "sent"
BY DEF Empty, Loading, Idle, EntryType, ActType, Content, Fetch

LEMMA ExcusedType ==
  ASSUME NEW e \in EntryType
  PROVE  /\ Excused(e) \in EntryType
         /\ Excused(e).data # "stale" /\ Excused(e).fetch # "stale"
         /\ e.data = "none" => Excused(e).data = "none"
BY DEF Excused, EntryType, Content, Fetch

LEMMA ChangedType ==
  ASSUME NEW e \in EntryType, NEW owed \in BOOLEAN
  PROVE  /\ Changed(e, owed) \in EntryType
         /\ e.data = "none" => Changed(e, owed).data = "none"
         /\ ~ owed /\ Changed(e, owed).data = "stale" => e.data = "stale"
         /\ ~ owed /\ Changed(e, owed).fetch = "stale" => e.fetch = "stale"
         /\ Changed(e, owed).fetch = "idle" <=> e.fetch = "idle"
<1>1. /\ Outdated(e.data, owed) \in Content
      /\ Outdated(e.fetch, owed) \in Fetch
  BY DEF Outdated, EntryType, Content, Fetch
<1>2. QED
  BY <1>1 DEF Changed, Outdated, EntryType, Content, Fetch

LEMMA InvalidatedType ==
  ASSUME NEW k \in slow, entry[k] \in EntryType,
         k \notin Mounted => entry[k].data = "none"
  PROVE  /\ Invalidated(k) \in EntryType
         /\ Invalidated(k).fetch # "stale"
         /\ Invalidated(k).data = "stale" => Invalidated(k).fetch # "idle"
         /\ entry[k].data = "none" => Invalidated(k).data = "none"
<1>1. CASE Joins(k)
  BY <1>1, ExcusedType DEF Invalidated
<1>2. CASE ~ Joins(k) /\ k \in Mounted
  BY <1>2 DEF Invalidated, EntryType, Fetch
<1>3. CASE ~ Joins(k) /\ k \notin Mounted
  BY <1>3 DEF Invalidated, Joins, EntryType
<1>4. QED
  BY <1>1, <1>2, <1>3

\* What is owed does not depend on the queries a mutation waits for.
LEMMA SameOwed ==
  ASSUME \A o \in Ops : act'[o].at = act[o].at /\ act'[o].batch = act[o].batch, NEW k
  PROVE  Owed(k)' <=> Owed(k)
BY DEF Owed, Owing

\* A mutation that begins, or that the API refuses, owed nothing and owes nothing.
LEMMA IdleOwesNothing ==
  ASSUME NEW o \in Ops, act[o].at \in {"idle", "sent"}, NEW k,
         \A q \in Ops \ {o} : act'[q] = act[q]
  PROVE  Owed(k) => Owed(k)'
BY DEF Owed, Owing

LEMMA InitPagesInv == PagesInit => PagesInv
<1> SUFFICES ASSUME PagesInit PROVE PagesInv
  OBVIOUS
<1>1. KeysOf(role) \subseteq Keys
  BY RoutesTyped DEF PagesInit, KeysOf
<1>2. slow \subseteq Keys
  BY <1>1 DEF PagesInit
<1>3. entry \in [slow -> EntryType]
  BY EntryTypes DEF PagesInit
<1>4. PagesTypeOK
  BY <1>2, <1>3, RoutesTyped, EntryTypes, PagesOK
     DEF PagesInit, PagesTypeOK, EntryType, ActType, PagesOK
<1>5. \A k \in slow : entry[k].data = "none" /\ entry[k].fetch # "stale"
  BY EntryTypes DEF PagesInit
<1>6. QED
  BY <1>4, <1>5 DEF PagesInv, NotForgotten

\* Queries.
LEMMA QueryPagesInv ==
  ASSUME PagesInv, NEW k \in slow, Read(k) \/ Arrive(k) \/ Fail(k) \/ Poll(k)
  PROVE  PagesInv'
<1> USE DEF PagesInv, PagesTypeOK
<1>0. UNCHANGED <<role, slow, page, toast>> /\ mishaps' \in 0..MaxMishaps
  BY PagesOK DEF Read, Arrive, Fail, Poll, Mishap, PagesOK
<1>1. Mounted' = Mounted /\ (k \in Polled)' = (k \in Polled)
  BY <1>0 DEF Mounted, Mounts, Shows
<1>2. PICK e \in EntryType : entry' = [entry EXCEPT ![k] = e]
  <2>1. entry[k] \in EntryType
    BY DEF EntryType
  <2>2. Excused(entry[k]) \in EntryType
    BY <2>1, ExcusedType
  <2>3. CASE Read(k) \/ Poll(k)
    BY <2>1, <2>3 DEF Read, Poll, EntryType, Fetch
  <2>4. CASE Arrive(k)
    <3>1. [data |-> entry[k].fetch, fetch |-> "idle"] \in EntryType
      BY <2>4 DEF Arrive, EntryType, Fetch
    <3>2. QED
      BY <2>4, <3>1, EntryTypes DEF Arrive
  <2>5. CASE Fail(k)
    <3>1. [Excused(entry[k]) EXCEPT !.fetch = "idle"] \in EntryType
      BY <2>2 DEF EntryType, Fetch
    <3>2. QED
      BY <2>5, <3>1, EntryTypes DEF Fail
  <2>6. QED
    BY <2>3, <2>4, <2>5
<1>3. /\ act' \in [Ops -> ActType]
      /\ \A o \in Ops : act'[o].at = act[o].at /\ act'[o].batch = act[o].batch
  <2>1. CASE act' = act
    BY <2>1 DEF ActType
  <2>2. CASE act' = Ended(k)
    BY <2>2 DEF Ended, ActType
  <2>3. QED
    BY <2>1, <2>2 DEF Read, Arrive, Fail, Poll
<1>4. PagesTypeOK'
  BY <1>0, <1>2, <1>3 DEF EntryType, ActType
<1>5. \A x \in slow \ Mounted : entry'[x].data = "none"
  BY <1>2, EntryTypes DEF Read, Arrive, Fail, Poll
<1>6. \A x : Owed(x)' <=> Owed(x)
  BY <1>3, SameOwed
<1>7. k \notin Polled => NotForgotten(k)'
  <2>1. CASE Read(k) \/ Poll(k)
    BY <1>6, <2>1 DEF Read, Poll, NotForgotten
  <2>2. CASE Arrive(k)
    BY <1>6, <2>2, EntryTypes DEF Arrive, NotForgotten
  <2>3. CASE Fail(k)
    <3>1. entry[k] \in EntryType
      BY DEF EntryType
    <3>2. Excused(entry[k]) \in EntryType /\ Excused(entry[k]).data # "stale"
      BY <3>1, ExcusedType
    <3>3. entry'[k].data # "stale" /\ entry'[k].fetch # "stale"
      BY <2>3, <3>2, EntryTypes DEF Fail, EntryType
    <3>4. QED
      BY <3>3 DEF NotForgotten
  <2>4. QED
    BY <2>1, <2>2, <2>3
<1>8. \A x \in slow \ Polled : NotForgotten(x)'
  BY <1>2, <1>6, <1>7 DEF NotForgotten
<1>9. QED
  BY <1>0, <1>1, <1>4, <1>5, <1>8

\* Leaving a page forgets its content; entering one queries anew.
LEMMA NavigatePagesInv ==
  ASSUME PagesInv, NEW p, Navigate(p)
  PROVE  PagesInv'
<1> USE DEF PagesInv, PagesTypeOK
<1>1. /\ p \in DOMAIN Routes[role] /\ page' = p
      /\ UNCHANGED <<role, slow, toast, mishaps>>
  BY DEF Navigate
<1>2. PICK background \in SUBSET (Mounted \ Mounts(p)), cached \in BOOLEAN, gone \in SUBSET Keys :
        /\ entry' = [k \in slow |->
             CASE k \in Shows(p) -> Entered(k, cached)
               [] k \in Layout[role] \ Shows(p) -> entry[k]
               [] k \in background -> [entry[k] EXCEPT !.data = "none"]
               [] OTHER -> Empty]
        /\ act' = [o \in Ops |-> [act[o] EXCEPT !.waits = @ \ gone]]
  <2> DEFINE left == {k \in Mounted \ Mounts(p) : entry[k].fetch # "idle"}
  <2>1. PICK background \in SUBSET left, cached \in BOOLEAN :
          /\ entry' = [k \in slow |->
               CASE k \in Shows(p) -> Entered(k, cached)
                 [] k \in Layout[role] \ Shows(p) -> entry[k]
                 [] k \in background -> [entry[k] EXCEPT !.data = "none"]
                 [] OTHER -> Empty]
          /\ act' = [o \in Ops |-> [act[o] EXCEPT !.waits = @ \ (left \ background)]]
    BY DEF Navigate
  <2>2. left \ background \in SUBSET Keys
    BY DEF Mounted, Mounts, Shows
  <2>3. background \in SUBSET (Mounted \ Mounts(p))
    OBVIOUS
  <2> HIDE DEF left
  <2>4. QED
    BY <2>1, <2>2, <2>3, Zenon
<1>3. Mounted' = Shows(p) \union (slow \cap Layout[role])
  BY <1>1 DEF Mounted, Mounts, Shows
<1>4. /\ Mounts(p) = Shows(p) \union (slow \cap Layout[role])
      /\ slow \cap Layout[role] \subseteq Mounted
  BY DEF Mounted, Mounts
<1>5. /\ act' \in [Ops -> ActType]
      /\ \A o \in Ops : act'[o].at = act[o].at /\ act'[o].batch = act[o].batch
  BY <1>2 DEF ActType
<1>6. \A k : Owed(k)' <=> Owed(k)
  BY <1>5, SameOwed
<1>7. ASSUME NEW k \in slow
      PROVE  /\ entry'[k] \in EntryType
             /\ k \notin Mounted' => entry'[k].data = "none"
             /\ k \notin Polled => NotForgotten(k)'
  <2>1. entry[k] \in EntryType
    BY DEF EntryType
  <2>2. CASE k \in Shows(p)
    <3>1. entry'[k] = Entered(k, cached) /\ k \in Mounted'
      BY <1>2, <1>3, <1>4, <2>2
    <3>2. entry'[k].fetch = IF entry[k].fetch = "idle" THEN "sent" ELSE entry[k].fetch
      BY <3>1 DEF Entered
    <3>3. entry'[k] \in EntryType
      BY <2>1, <3>1 DEF Entered, EntryType, Content, Fetch
    <3>4. QED
      BY <1>6, <3>1, <3>2, <3>3 DEF NotForgotten
  <2>3. CASE k \in Layout[role] \ Shows(p)
    <3>1. entry'[k] = entry[k] /\ k \in Mounted'
      BY <1>2, <1>3, <1>4, <2>3
    <3>2. QED
      BY <1>6, <2>1, <3>1 DEF NotForgotten
  <2>4. CASE k \notin Mounts(p) /\ k \in background
    <3>1. entry'[k] = [entry[k] EXCEPT !.data = "none"]
      BY <1>2, <1>4, <2>4
    <3>2. entry'[k] \in EntryType /\ entry'[k].data = "none" /\ entry'[k].fetch = entry[k].fetch
      BY <2>1, <3>1 DEF EntryType, Content
    <3>3. QED
      BY <1>6, <3>2 DEF NotForgotten
  <2>5. CASE k \notin Mounts(p) /\ k \notin background
    <3>1. entry'[k] = Empty
      BY <1>2, <1>4, <2>5
    <3>2. QED
      BY <3>1, EntryTypes DEF NotForgotten
  <2>6. QED
    BY <1>4, <2>2, <2>3, <2>4, <2>5
<1>8. PagesTypeOK'
  <2>1. entry' \in [slow -> EntryType]
    BY <1>2, <1>7
  <2>2. QED
    BY <1>1, <1>5, <2>1 DEF EntryType, ActType
<1>9. QED
  BY <1>1, <1>7, <1>8

\* Mutations that begin, are asked about, dismissed or refused.
LEMMA ClickPagesInv ==
  ASSUME PagesInv,
         \/ \E o \in Ops : Click(o) \/ Ask(o) \/ Refuse(o)
         \/ Dismiss
         \/ Confirm
  PROVE  PagesInv'
<1> USE DEF PagesInv, PagesTypeOK
<1>1. UNCHANGED <<role, slow, page, entry, mishaps>> /\ toast' \in Ops \union {"none"}
  BY DEF Click, Ask, Refuse, Dismiss, Confirm
<1>2. \/ act' = act
      \/ \E o \in Ops, a \in ActType :
           act[o].at \in {"idle", "sent"} /\ act' = [act EXCEPT ![o] = a]
  <2>1. ASSUME NEW o \in Ops, Start(o)
        PROVE  /\ act[o].at \in {"idle", "sent"}
               /\ [act[o] EXCEPT !.at = "sent"] \in ActType
               /\ act' = [act EXCEPT ![o] = [act[o] EXCEPT !.at = "sent"]]
    BY <2>1 DEF Start, ActType
  <2>2. CASE Confirm
    BY <2>1, <2>2 DEF Confirm
  <2>3. CASE \E o \in Ops : Click(o)
    BY <2>1, <2>3 DEF Click
  <2>4. CASE \E o \in Ops : Refuse(o)
    BY <2>4, EntryTypes DEF Refuse
  <2>5. QED
    BY <2>2, <2>3, <2>4 DEF Ask, Dismiss
<1>3. PagesTypeOK'
  BY <1>1, <1>2 DEF ActType
<1>4. ASSUME NEW k PROVE Owed(k) => Owed(k)'
  BY <1>2, IdleOwesNothing DEF Owed, Owing
<1>5. Mounted' = Mounted
  BY <1>1 DEF Mounted, Mounts, Shows
<1>6. QED
  BY <1>1, <1>3, <1>4, <1>5 DEF NotForgotten

\* The handler writes: what the page shows of it is owed from now on.
LEMMA WritePagesInv ==
  ASSUME PagesInv, NEW o \in Ops, Write(o)
  PROVE  PagesInv'
<1> USE DEF PagesInv, PagesTypeOK
<1>1. /\ UNCHANGED <<role, slow, page, toast, mishaps>> /\ act[o].at = "sent"
      /\ act' = [act EXCEPT ![o].at = "done"]
      /\ entry' = [k \in slow |->
           IF ReadsWritesOf(k, o)
           THEN Changed(entry[k], Owes(k, o)) ELSE entry[k]]
  BY DEF Write
<1>2. Mounted' = Mounted
  BY <1>1 DEF Mounted, Mounts, Shows
<1>3. act' \in [Ops -> ActType]
  BY <1>1 DEF ActType
<1>4. ASSUME NEW k PROVE Owed(k) => Owed(k)'
  BY <1>1, IdleOwesNothing
<1>5. ASSUME NEW k \in slow \ Polled, ReadsWritesOf(k, o), Owes(k, o)
      PROVE  Owed(k)'
  <2>1. Covers(role, Routes[role][page])
    BY TraderPagesCover, AdminPagesCover DEF Routes
  <2>2. k \in Told(o)
    BY <1>5, <2>1 DEF Owes, Covers, Mounted, Mounts, Shows, Offers
  <2>3. act'[o].at = "done"
    BY <1>1
  <2>4. QED
    BY <1>5, <2>2, <2>3 DEF Told, Owed, Owing
<1>6. ASSUME NEW k \in slow
      PROVE  /\ entry'[k] \in EntryType
             /\ k \notin Mounted => entry'[k].data = "none"
             /\ k \notin Polled => NotForgotten(k)'
  <2>1. entry[k] \in EntryType
    BY DEF EntryType
  <2> DEFINE owed == Owes(k, o)
  <2>2. CASE ~ ReadsWritesOf(k, o)
    BY <1>1, <1>4, <2>1, <2>2 DEF NotForgotten
  <2>3. CASE ReadsWritesOf(k, o)
    <3>1. entry'[k] = Changed(entry[k], owed) /\ owed \in BOOLEAN
      BY <1>1, <2>3 DEF Owes
    <3>2. owed /\ k \notin Polled => Owed(k)'
      BY <1>5, <2>3
    <3> HIDE DEF owed
    <3>3. QED
      BY <1>4, <2>1, <3>1, <3>2, ChangedType DEF NotForgotten
  <2>4. QED
    BY <2>2, <2>3
<1>7. entry' \in [slow -> EntryType]
  BY <1>1, <1>6
<1>8. QED
  BY <1>1, <1>2, <1>3, <1>6, <1>7 DEF EntryType, ActType

\* A mutation whose answer is lost excuses what it owed.
LEMMA LosePagesInv ==
  ASSUME PagesInv, NEW o \in Ops, LoseAnswer(o)
  PROVE  PagesInv'
<1> USE DEF PagesInv, PagesTypeOK
<1>1. /\ UNCHANGED <<role, slow, page, toast>> /\ mishaps' \in 0..MaxMishaps
      /\ act' = [act EXCEPT ![o] = Idle]
      /\ entry' = [k \in slow |-> IF ReadsWritesOf(k, o) THEN Excused(entry[k]) ELSE entry[k]]
  BY PagesOK DEF LoseAnswer, Mishap, PagesOK
<1>2. Mounted' = Mounted
  BY <1>1 DEF Mounted, Mounts, Shows
<1>3. act' \in [Ops -> ActType]
  BY <1>1, EntryTypes DEF ActType
<1>4. ASSUME NEW k, ~ ReadsWritesOf(k, o) PROVE Owed(k) => Owed(k)'
  BY <1>1, <1>4 DEF Owed, Owing
<1>5. ASSUME NEW k \in slow
      PROVE  /\ entry'[k] \in EntryType
             /\ k \notin Mounted => entry'[k].data = "none"
             /\ k \notin Polled => NotForgotten(k)'
  <2>1. entry[k] \in EntryType
    BY DEF EntryType
  <2>2. QED
    BY <1>1, <1>4, <2>1, ExcusedType DEF NotForgotten
<1>6. entry' \in [slow -> EntryType]
  BY <1>1, <1>5
<1>7. QED
  BY <1>1, <1>2, <1>3, <1>5, <1>6 DEF EntryType, ActType

\* A batch: its keys are queried anew, or excused; the others stay owed.
LEMMA BatchPagesInv ==
  ASSUME PagesInv, NEW o \in Ops, NEW n \in DOMAIN Mutations[o].invalidates, Invalidate(o, n),
         \/ act[o].at = "done" /\ n = 1
         \/ act[o].at = "settling" /\ n = act[o].batch + 1,
         UNCHANGED <<role, slow, page, toast, mishaps>>
  PROVE  PagesInv'
<1> USE DEF PagesInv, PagesTypeOK
<1> DEFINE keys == Mutations[o].invalidates[n] \cap slow
<1>1. entry' = [k \in slow |-> IF k \in keys THEN Invalidated(k) ELSE entry[k]]
  BY DEF Invalidate
<1>2. PICK restarted \in SUBSET Keys :
        act' = [q \in Ops |->
          IF q = o THEN [at |-> "settling", batch |-> n, waits |-> keys \cap Mounted]
          ELSE [act[q] EXCEPT !.waits = @ \ restarted]]
  BY DEF Invalidate
<1>3. n \in 1..2
  BY BatchesOfMutation
<1>4. act' \in [Ops -> ActType]
  BY <1>2, <1>3 DEF ActType
<1>5. Mounted' = Mounted
  BY DEF Mounted, Mounts, Shows
<1>6. ASSUME NEW k \in slow \ keys PROVE Owed(k) => Owed(k)'
  <2>1. SUFFICES ASSUME NEW q \in Ops, Owing(k, q) PROVE Owing(k, q)'
    BY DEF Owed
  <2>2. CASE q # o
    BY <1>2, <2>1, <2>2 DEF Owing
  <2>3. CASE q = o
    <3>1. PICK m \in DOMAIN Mutations[o].invalidates :
            /\ k \in Mutations[o].invalidates[m]
            /\ act[o].at = "done" \/ (act[o].at = "settling" /\ act[o].batch < m)
      BY <2>1, <2>3 DEF Owing
    <3>2. m # n /\ m \in 1..2
      BY <1>6, <3>1, BatchesOfMutation
    <3>3. n < m
      BY <1>3, <3>1, <3>2
    <3>4. act'[o].at = "settling" /\ act'[o].batch = n
      BY <1>2
    <3>5. QED
      BY <2>1, <2>3, <3>1, <3>3, <3>4 DEF Owing
  <2>4. QED
    BY <2>2, <2>3
<1>7. ASSUME NEW k \in slow
      PROVE  /\ entry'[k] \in EntryType
             /\ k \notin Mounted => entry'[k].data = "none"
             /\ k \notin Polled => NotForgotten(k)'
  <2>1. entry[k] \in EntryType
    BY DEF EntryType
  <2>2. CASE k \in keys
    <3>1. entry'[k] = Invalidated(k)
      BY <1>1, <2>2
    <3>2. QED
      BY <2>1, <3>1, InvalidatedType DEF NotForgotten
  <2>3. CASE k \notin keys
    BY <1>1, <1>6, <2>1, <2>3 DEF NotForgotten
  <2>4. QED
    BY <2>2, <2>3
<1>8. entry' \in [slow -> EntryType]
  BY <1>1, <1>7
<1>9. QED
  BY <1>4, <1>5, <1>7, <1>8 DEF EntryType, ActType

LEMMA TellPagesInv ==
  ASSUME PagesInv, NEW o \in Ops, Succeed(o) \/ NextBatch(o)
  PROVE  PagesInv'
<1> USE DEF PagesInv, PagesTypeOK
<1>1. Len(Mutations[o].invalidates) \in 1..2
      /\ DOMAIN Mutations[o].invalidates = 1..Len(Mutations[o].invalidates)
  BY BatchesOfMutation
<1>2. act[o].batch \in 0..2
  OBVIOUS
<1>3. CASE Succeed(o)
  BY <1>1, <1>3, BatchPagesInv DEF Succeed
<1>4. CASE NextBatch(o) /\ act[o].batch < Len(Mutations[o].invalidates)
  BY <1>1, <1>2, <1>4, BatchPagesInv DEF NextBatch
<1>5. CASE NextBatch(o) /\ ~ (act[o].batch < Len(Mutations[o].invalidates))
  <2>1. /\ UNCHANGED <<role, slow, page, entry, toast, mishaps>>
        /\ act[o].at = "settling" /\ act' = [act EXCEPT ![o] = Idle]
    BY <1>5 DEF NextBatch
  <2>2. ASSUME NEW k PROVE Owed(k) => Owed(k)'
    <3>1. ~ Owing(k, o)
      BY <1>1, <1>2, <1>5, <2>1 DEF Owing
    <3>2. \A q \in Ops \ {o} : Owing(k, q) => Owing(k, q)'
      BY <2>1 DEF Owing
    <3>3. QED
      BY <3>1, <3>2 DEF Owed
  <2>3. act' \in [Ops -> ActType]
    BY <2>1, EntryTypes DEF ActType
  <2>4. Mounted' = Mounted
    BY <2>1 DEF Mounted, Mounts, Shows
  <2>5. QED
    BY <2>1, <2>2, <2>3, <2>4 DEF NotForgotten, ActType
<1>6. QED
  BY <1>3, <1>4, <1>5

\* A change made elsewhere makes nothing stale.
LEMMA ElsewherePagesInv ==
  ASSUME PagesInv, NEW f, Elsewhere(f)
  PROVE  PagesInv'
<1> USE DEF PagesInv, PagesTypeOK
<1>1. /\ UNCHANGED <<role, slow, page, act, toast>> /\ mishaps' \in 0..MaxMishaps
      /\ entry' = [k \in slow |-> IF f \in Reads[k] THEN Changed(entry[k], FALSE) ELSE entry[k]]
  BY PagesOK DEF Elsewhere, Mishap, PagesOK
<1>2. Mounted' = Mounted /\ \A k : Owed(k)' <=> Owed(k)
  BY <1>1 DEF Mounted, Mounts, Shows, Owed, Owing
<1>3. ASSUME NEW k \in slow
      PROVE  /\ entry'[k] \in EntryType
             /\ k \notin Mounted => entry'[k].data = "none"
             /\ k \notin Polled => NotForgotten(k)'
  <2>1. entry[k] \in EntryType
    BY DEF EntryType
  <2>2. QED
    BY <1>1, <1>2, <2>1, ChangedType DEF NotForgotten
<1>4. entry' \in [slow -> EntryType]
  BY <1>1, <1>3
<1>5. QED
  BY <1>1, <1>2, <1>3, <1>4 DEF EntryType

LEMMA NextPagesInv == PagesInv /\ [PagesNext]_pagesVars => PagesInv'
<1> SUFFICES ASSUME PagesInv, [PagesNext]_pagesVars PROVE PagesInv'
  OBVIOUS
<1>1. CASE \E k \in slow : Read(k) \/ Arrive(k) \/ Fail(k) \/ Poll(k)
  BY <1>1, QueryPagesInv
<1>2. CASE \E p \in DOMAIN TraderRoutes \union DOMAIN AdminRoutes : Navigate(p)
  BY <1>2, NavigatePagesInv
<1>3. CASE \/ \E o \in Ops : Click(o) \/ Ask(o) \/ Refuse(o)
           \/ Dismiss
           \/ Confirm
  BY <1>3, ClickPagesInv
<1>4. CASE \E o \in Ops : Write(o) \/ LoseAnswer(o) \/ Succeed(o) \/ NextBatch(o)
  BY <1>4, WritePagesInv, LosePagesInv, TellPagesInv
<1>5. CASE \E f \in Facts : Elsewhere(f)
  BY <1>5, ElsewherePagesInv
<1>6. CASE UNCHANGED pagesVars
  <2>1. \A k : Owed(k)' <=> Owed(k)
    BY <1>6 DEF pagesVars, Owed, Owing
  <2>2. QED
    BY <1>6, <2>1 DEF pagesVars, PagesInv, PagesTypeOK, NotForgotten, Mounted, Mounts, Shows
<1>7. QED
  BY <1>1, <1>2, <1>3, <1>4, <1>5, <1>6 DEF PagesNext

(* The inductive invariant of the pages.                                    *)
THEOREM PagesInvariance == PagesSpec => []PagesInv
BY InitPagesInv, NextPagesInv, PTL DEF PagesSpec

\* What a page shows of the user's own changes is never left behind: for any
\* number of keys, of overlapping mutations and of queries that outlive their page.
THEOREM ChangesShown == PagesSpec => []OwnChangesShow
<1>1. PagesInv => OwnChangesShow
  BY DEF PagesInv, NotForgotten, Owed, Owing, OwnChangesShow, Behind, Telling, Pending
<1>2. QED
  BY <1>1, PagesInvariance, PTL
=============================================================================
