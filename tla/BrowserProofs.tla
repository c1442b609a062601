---------------------------- MODULE BrowserProofs ----------------------------
(***************************************************************************)
(* Browser for any number of sessions, states, requests and rotations: an  *)
(* honest browser is not taken for a thief without cause, and an OAuth     *)
(* state passes only if its own and, without cause, only once.             *)
(***************************************************************************)
EXTENDS Browser, TLAPS

LEMMA CookieFacts ==
    /\ \A f \in Family: Keep \notin CookieOf(f) /\ NoCookie \notin CookieOf(f)
    /\ \A f \in Family: \A c: c \in CookieOf(f) => c.family = f
    /\ \A c \in Cookie: c.family \in Family /\ c \in CookieOf(c.family) /\ c.n \in 0 .. MaxRotations
    /\ Keep \notin Cookie /\ NoCookie \notin Cookie /\ NoCookie # Keep
    /\ \A f \in Family, k \in 0 .. MaxRotations:
         LET c == [family |-> f, n |-> k]
         IN  c \in Cookie /\ c.family = f /\ c.n = k /\ c \in CookieOf(f)
<1>1. \A f \in Family: \A c: c \in CookieOf(f) => c \in [family: Family, n: Nat] /\ c.family = f
  BY DEF CookieOf
<1>2. \A c \in Cookie: /\ c \in [family: Family, n: Nat]
                       /\ c.family \in Family /\ c \in CookieOf(c.family)
                       /\ c.n \in 0 .. MaxRotations
  BY MaxRotationsAssumption DEF Cookie, CookieOf
<1>3. \A f \in Family, k \in 0 .. MaxRotations:
        /\ [family |-> f, n |-> k] \in Cookie
        /\ [family |-> f, n |-> k].family = f
        /\ [family |-> f, n |-> k].n = k
        /\ [family |-> f, n |-> k] \in CookieOf(f)
  BY MaxRotationsAssumption DEF Cookie, CookieOf
<1> QED
  BY <1>1, <1>2, <1>3, NullsAssumption

LEMMA StateFacts ==
    /\ Foreign \notin State /\ NoState \notin State /\ NoState # Foreign
    /\ Keep \notin State /\ Keep # NoState
BY NullsAssumption

LEMMA IdleMessage ==
    /\ Idle.step = "idle" /\ Idle.kind = "none" /\ Idle.cookie = NoCookie
    /\ Idle.held = NoState /\ Idle.query = NoState
BY DEF Idle

-----------------------------------------------------------------------------
(* What the steps do to the messages and to their types *)

LEMMA Dropped ==
    ASSUME TypeOK, NEW m \in Request, message' = [message EXCEPT ![m] = Idle]
    PROVE  /\ message' \in [Request -> Sent \cup Answer \cup {Idle}]
           /\ message'[m] = Idle
           /\ \A q \in Request: q # m => message'[q] = message[q]
BY DEF TypeOK

LEMMA SentOff ==
    ASSUME TypeOK, NEW m \in Request, NEW kind \in Kind, NEW cookie \in Cookie \cup {NoCookie},
           NEW held \in State \cup {NoState}, NEW query \in State \cup {Foreign, NoState},
           Send(m, kind, cookie, held, query)
    PROVE  /\ message' \in [Request -> Sent \cup Answer \cup {Idle}]
           /\ message[m] = Idle
           /\ message'[m].step = "sent" /\ message'[m].kind = kind
           /\ message'[m].cookie = cookie
           /\ message'[m].held = held /\ message'[m].query = query
           /\ \A q \in Request: q # m => message'[q] = message[q]
<1> DEFINE new == [step |-> "sent", kind |-> kind, cookie |-> cookie,
                   held |-> held, query |-> query]
<1>1. /\ new \in Sent /\ new.step = "sent" /\ new.kind = kind /\ new.cookie = cookie
      /\ new.held = held /\ new.query = query
  BY DEF Sent
<1>2. message' = [message EXCEPT ![m] = new] /\ message[m].step = "idle"
  BY DEF Send
<1>3. message[m] = Idle
  BY <1>2 DEF TypeOK, Sent, Answer
<1> HIDE DEF new
<1> QED
  BY <1>1, <1>2, <1>3 DEF TypeOK

LEMMA Replied ==
    ASSUME TypeOK, NEW m \in Request, message[m].step = "sent",
           NEW cookie \in Cookie \cup {NoCookie, Keep},
           NEW held \in State \cup {NoState, Keep},
           Reply(m, cookie, held)
    PROVE  /\ message' \in [Request -> Sent \cup Answer \cup {Idle}]
           /\ message[m] \in Sent
           /\ message'[m].step = "answer" /\ message'[m].kind = message[m].kind
           /\ message'[m].cookie = cookie
           /\ message'[m].held = held /\ message'[m].query = message[m].query
           /\ \A q \in Request: q # m => message'[q] = message[q]
<1> DEFINE new == [message[m] EXCEPT !.step = "answer", !.cookie = cookie, !.held = held]
<1>1. message[m] \in Sent
  BY IdleMessage DEF TypeOK, Answer
<1>2. /\ new \in Answer /\ new.step = "answer" /\ new.kind = message[m].kind
      /\ new.cookie = cookie /\ new.held = held /\ new.query = message[m].query
  BY <1>1 DEF Sent, Answer
<1>3. message' = [message EXCEPT ![m] = new]
  BY DEF Reply
<1> HIDE DEF new
<1> QED
  BY <1>1, <1>2, <1>3 DEF TypeOK

\* The jar after an answer.
LEMMA StoredCookies ==
    ASSUME TypeOK, NEW m \in Request, message[m].step = "answer"
    PROVE  /\ message[m] \in Answer
           /\ Stored(m) \in [refresh: Cookie \cup {NoCookie}, state: State \cup {NoState}]
           /\ Stored(m).refresh =
                IF message[m].cookie = Keep THEN jar.refresh ELSE message[m].cookie
           /\ Stored(m).state = IF message[m].held = Keep THEN jar.state ELSE message[m].held
<1>1. message[m] \in Answer
  BY IdleMessage DEF TypeOK, Sent
<1>2. jar.refresh \in Cookie \cup {NoCookie} /\ jar.state \in State \cup {NoState}
  BY DEF TypeOK
<1> QED
  BY <1>1, <1>2 DEF Stored, Answer

LEMMA InitType == Init => TypeOK
BY MaxRotationsAssumption DEF Init, TypeOK

\* The sessions' types, for every step of the server.
LEMMA SessionTypes ==
    ASSUME TypeOK, NEW f \in Family, NEW F \in SUBSET Family
    PROVE  LET Status == {"unborn", "open", "ended", "replayed"}
               Sessions == [Family -> [status: Status, newest: 0 .. MaxRotations]]
           IN  /\ [session EXCEPT ![f].status = "open"] \in Sessions
               /\ [session EXCEPT ![f] = [status |-> "replayed", newest |-> 0]] \in Sessions
               /\ \A k \in 0 .. MaxRotations: [session EXCEPT ![f].newest = k] \in Sessions
               /\ Ended(F) \in Sessions
BY MaxRotationsAssumption DEF TypeOK, Ended

\* A handler's answer, whatever its cookies: with what else a step may change.
LEMMA ReplyType ==
    ASSUME TypeOK, NEW m \in Request, message[m].step = "sent",
           NEW cookie \in Cookie \cup {NoCookie, Keep},
           NEW held \in State \cup {NoState, Keep},
           Reply(m, cookie, held),
           session' \in [Family -> [status: {"unborn", "open", "ended", "replayed"},
                                    newest: 0 .. MaxRotations]],
           drawn' \in SUBSET State,
           UNCHANGED <<jar, begun, contested, repeated>>,
           passed' \in [once: SUBSET (State \cup {Foreign}), twice: SUBSET (State \cup {Foreign})]
    PROVE  TypeOK'
<1>1. message' \in [Request -> Sent \cup Answer \cup {Idle}]
  BY Replied
<1> QED
  BY <1>1 DEF TypeOK

\* The two outcomes of a sign-in.
LEMMA SignInType ==
    ASSUME TypeOK, NEW m \in Request, NEW held \in State \cup {NoState, Keep}, SignIn(m, held)
    PROVE  /\ session' \in [Family -> [status: {"unborn", "open", "ended", "replayed"},
                                       newest: 0 .. MaxRotations]]
           /\ \E cookie \in Cookie \cup {NoCookie, Keep}: Reply(m, cookie, held)
<1>1. CASE Reply(m, Keep, held) /\ UNCHANGED session
  BY <1>1 DEF TypeOK
<1>2. ASSUME NEW f \in Family,
             session' = [session EXCEPT ![f].status = "open"],
             Reply(m, [family |-> f, n |-> 0], held)
      PROVE  /\ session' \in [Family -> [status: {"unborn", "open", "ended", "replayed"},
                                         newest: 0 .. MaxRotations]]
             /\ \E cookie \in Cookie \cup {NoCookie, Keep}: Reply(m, cookie, held)
  <2>1. [family |-> f, n |-> 0] \in Cookie
    BY MaxRotationsAssumption DEF Cookie
  <2> QED
    BY <1>2, <2>1, SessionTypes
<1> QED
  BY <1>1, <1>2 DEF SignIn

LEMMA HandleType ==
    ASSUME TypeOK, NEW m \in Request, Handle(m)
    PROVE  TypeOK'
<1> DEFINE Sessions == [Family -> [status: {"unborn", "open", "ended", "replayed"},
                                   newest: 0 .. MaxRotations]]
<1>1. session \in Sessions /\ drawn \in SUBSET State
      /\ passed \in [once: SUBSET (State \cup {Foreign}), twice: SUBSET (State \cup {Foreign})]
  BY DEF TypeOK
<1>2. CASE HandleLogin(m)
  <2>1. /\ message[m].step = "sent" /\ SignIn(m, Keep)
        /\ UNCHANGED <<drawn, jar, begun, contested, repeated, passed>>
    BY <1>2 DEF HandleLogin, Received, history
  <2>2. session' \in Sessions /\ \E cookie \in Cookie \cup {NoCookie, Keep}: Reply(m, cookie, Keep)
    BY <2>1, SignInType
  <2> QED
    BY <1>1, <2>1, <2>2, ReplyType
<1>3. CASE HandleRefresh(m)
  <2> DEFINE f == message[m].cookie.family
             n == message[m].cookie.n
  <2>1. /\ message[m].step = "sent"
        /\ UNCHANGED <<drawn, jar, begun, contested, repeated, passed>>
    BY <1>3 DEF HandleRefresh, Received, history
  <2>2. CASE /\ f \in Open /\ n = session[f].newest /\ n < MaxRotations
             /\ session' = [session EXCEPT ![f].newest = n + 1]
             /\ Reply(m, [family |-> f, n |-> n + 1], Keep)
    <3>1. f \in Family /\ n \in 0 .. MaxRotations
      BY <1>1, <2>2 DEF Open
    <3>2. n + 1 \in 0 .. MaxRotations
      BY <2>2, <3>1, MaxRotationsAssumption
    <3>3. session' \in Sessions
      BY <2>2, <3>1, <3>2, SessionTypes
    <3>4. [family |-> f, n |-> n + 1] \in Cookie
      BY <3>1, <3>2 DEF Cookie
    <3> QED
      BY <1>1, <2>1, <2>2, <3>3, <3>4, ReplyType
  <2>3. CASE /\ f \in Open /\ n # session[f].newest
             /\ session' = [session EXCEPT ![f] = [status |-> "replayed", newest |-> 0]]
             /\ Reply(m, Keep, Keep)
    <3>1. session' \in Sessions
      BY <2>3, SessionTypes DEF Open
    <3> QED
      BY <1>1, <2>1, <2>3, <3>1, ReplyType
  <2>4. CASE Reply(m, Keep, Keep) /\ UNCHANGED session
    BY <1>1, <2>1, <2>4, ReplyType
  <2> QED
    BY <1>3, <2>2, <2>3, <2>4 DEF HandleRefresh
<1>4. CASE HandleLogout(m)
  <2>1. /\ message[m].step = "sent"
        /\ UNCHANGED <<drawn, jar, begun, contested, repeated, passed>>
    BY <1>4 DEF HandleLogout, Received, history
  <2>2. ASSUME NEW F \in SUBSET Open, session' = Ended(F), Reply(m, NoCookie, Keep)
        PROVE  TypeOK'
    <3>1. session' \in Sessions
      <4>1. F \in SUBSET Family
        BY DEF Open
      <4>2. CASE Family = {}
        BY <1>1, <2>2, <4>2 DEF Ended
      <4>3. CASE Family # {}
        BY <2>2, <4>1, <4>3, SessionTypes
      <4> QED
        BY <4>2, <4>3
    <3> QED
      BY <1>1, <2>1, <2>2, <3>1, ReplyType
  <2>3. CASE Reply(m, Keep, Keep) /\ UNCHANGED session
    BY <1>1, <2>1, <2>3, ReplyType
  <2> QED
    BY <1>4, <2>2, <2>3 DEF HandleLogout
<1>5. ASSUME NEW s \in State, HandleStart(m, s) PROVE TypeOK'
  <2>1. /\ message[m].step = "sent" /\ Reply(m, Keep, s) /\ drawn' = drawn \cup {s}
        /\ UNCHANGED <<session, jar, begun, contested, repeated, passed>>
    BY <1>5 DEF HandleStart, Received, history
  <2> QED
    BY <1>1, <2>1, ReplyType
<1>6. CASE HandleCallback(m)
  <2> DEFINE s == message[m].query
  <2>1. /\ message[m].step = "sent"
        /\ UNCHANGED <<drawn, jar, begun, contested, repeated>>
    BY <1>6 DEF HandleCallback, Received
  <2>2. s \in State \cup {Foreign, NoState}
    BY <2>1, IdleMessage DEF TypeOK, Sent, Answer
  <2>3. CASE /\ StatesMatch(message[m].held, s)
             /\ passed' = [once |-> passed.once \cup {s},
                           twice |-> passed.twice \cup ({s} \cap passed.once)]
             /\ SignIn(m, StateCleared)
    <3>1. /\ session' \in Sessions
          /\ \E cookie \in Cookie \cup {NoCookie, Keep}: Reply(m, cookie, NoState)
      BY <2>3, SignInType DEF StateCleared
    <3>2. s \in State \cup {Foreign}
      BY <2>2, <2>3 DEF StatesMatch
    <3>3. passed' \in [once: SUBSET (State \cup {Foreign}), twice: SUBSET (State \cup {Foreign})]
      BY <1>1, <2>3, <3>2
    <3> QED
      BY <1>1, <2>1, <3>1, <3>3, ReplyType
  <2>4. CASE Reply(m, Keep, StateCleared) /\ UNCHANGED <<session, passed>>
    BY <1>1, <2>1, <2>4, ReplyType DEF StateCleared
  <2> QED
    BY <1>6, <2>3, <2>4 DEF HandleCallback
<1> QED
  BY <1>2, <1>3, <1>4, <1>5, <1>6 DEF Handle

LEMMA SendType ==
    ASSUME TypeOK, NEW m \in Request,
           \/ \E kind \in Kind: SendPlain(m, kind)
           \/ SendRefresh(m)
           \/ \E s \in State \cup {Foreign}: SendCallback(m, s)
    PROVE  TypeOK'
<1>1. /\ UNCHANGED <<session, drawn, jar, begun, passed>>
      /\ contested' \in SUBSET Family /\ repeated' \in SUBSET State
  <2>1. jar.refresh # NoCookie => jar.refresh.family \in Family
    BY CookieFacts DEF TypeOK
  <2> QED
    BY <2>1 DEF SendPlain, SendRefresh, SendCallback, Send, server, TypeOK
<1>2. message' \in [Request -> Sent \cup Answer \cup {Idle}]
  <2>1. ASSUME NEW kind \in Kind, SendPlain(m, kind)
        PROVE  message' \in [Request -> Sent \cup Answer \cup {Idle}]
    BY <2>1, SentOff DEF SendPlain
  <2>2. ASSUME SendRefresh(m) PROVE message' \in [Request -> Sent \cup Answer \cup {Idle}]
    <3>1. jar.refresh \in Cookie \cup {NoCookie} /\ "refresh" \in Kind
      BY DEF TypeOK, Kind
    <3> QED
      BY <2>2, <3>1, SentOff DEF SendRefresh
  <2>3. ASSUME NEW s \in State \cup {Foreign}, SendCallback(m, s)
        PROVE  message' \in [Request -> Sent \cup Answer \cup {Idle}]
    <3>1. jar.state \in State \cup {NoState} /\ "callback" \in Kind
      BY DEF TypeOK, Kind
    <3> QED
      BY <2>3, <3>1, SentOff DEF SendCallback
  <2> QED
    BY <2>1, <2>2, <2>3
<1> QED
  BY <1>1, <1>2 DEF TypeOK

LEMMA ReceiveType ==
    ASSUME TypeOK, NEW m \in Request, Receive(m),
           message[m].kind = "start" => message[m].held \in State
    PROVE  TypeOK'
<1>1. /\ message[m].step = "answer" /\ jar' = Stored(m)
      /\ begun' = IF message[m].kind = "start" THEN begun \cup {message[m].held} ELSE begun
      /\ message' = [message EXCEPT ![m] = Idle]
      /\ UNCHANGED <<session, drawn, contested, repeated, passed>>
  BY DEF Receive, server, history
<1>2. jar' \in [refresh: Cookie \cup {NoCookie}, state: State \cup {NoState}]
  BY <1>1, StoredCookies
<1>3. begun' \in SUBSET State
  BY <1>1 DEF TypeOK
<1> QED
  BY <1>1, <1>2, <1>3, Dropped DEF TypeOK

LEMMA ElseType ==
    ASSUME TypeOK,
           \/ \E m \in Request: Lose(m)
           \/ ForgetRefresh
           \/ ForgetState
           \/ \E f \in Family: EndElsewhere(f)
           \/ UNCHANGED vars
    PROVE  TypeOK'
<1>1. ASSUME NEW m \in Request, Lose(m) PROVE TypeOK'
  <2>1. message' \in [Request -> Sent \cup Answer \cup {Idle}]
    BY <1>1, Dropped DEF Lose
  <2> QED
    BY <1>1, <2>1 DEF Lose, server, TypeOK
<1>2. CASE ForgetRefresh \/ ForgetState
  BY <1>2 DEF ForgetRefresh, ForgetState, server, history, TypeOK
<1>3. ASSUME NEW f \in Family, EndElsewhere(f) PROVE TypeOK'
  <2>1. /\ session' = Ended({f})
        /\ UNCHANGED <<drawn, jar, begun, message, contested, repeated, passed>>
    BY <1>3 DEF EndElsewhere, history
  <2> QED
    BY <2>1, SessionTypes DEF TypeOK
<1>4. CASE UNCHANGED vars
  BY <1>4 DEF vars, server, history, TypeOK
<1> QED
  BY <1>1, <1>2, <1>3, <1>4

-----------------------------------------------------------------------------
(* The refresh cookie *)

\* A session that has not begun has no cookie anywhere.
NoneYet ==
    \A f \in Family: session[f].status = "unborn" =>
        /\ session[f].newest = 0
        /\ jar.refresh \notin CookieOf(f)
        /\ \A m \in Request: message[m].cookie \notin CookieOf(f)

\* All cookies of f are of its newest token, but one in the jar that an answer to a
\* refresh is about to replace; the answer to a sign-in is alone.
Current(f) ==
    /\ \A m, q \in Refreshing(f): m = q
    /\ \A m \in Request:
         message[m].cookie \in CookieOf(f) => message[m].cookie.n = session[f].newest
    /\ jar.refresh \in CookieOf(f) =>
         \/ jar.refresh.n = session[f].newest
         \/ \E m \in Refreshing(f): message[m].step = "answer"
    /\ \A m \in Request:
         message[m].cookie \in CookieOf(f) /\ message[m].kind # "refresh" =>
            /\ jar.refresh \notin CookieOf(f)
            /\ \A q \in Request: q # m => message[q].cookie \notin CookieOf(f)

\* A refresh carries a cookie.
CookieSent ==
    \A m \in Request: Received(m, "refresh") => message[m].cookie \in Cookie

CookieInv ==
    /\ NoneYet
    /\ \A f \in Family: session[f].status = "open" /\ f \notin contested => Current(f)
    /\ CookieSent
    /\ ReplayNeedsTrouble

LEMMA InitCookie == Init => CookieInv
<1> SUFFICES ASSUME Init PROVE CookieInv
  OBVIOUS
<1>1. /\ \A f \in Family: session[f].status = "unborn" /\ session[f].newest = 0
      /\ jar.refresh = NoCookie
      /\ \A m \in Request: message[m] = Idle
  BY DEF Init
<1> QED
  BY <1>1, IdleMessage, CookieFacts DEF CookieInv, NoneYet, CookieSent, Received, ReplayNeedsTrouble

\* Messages may lose their cookie and sessions may end: what is left is still current,
\* as long as no answer to a refresh is lost without being noted.
LEMMA FewerCookies ==
    ASSUME CookieInv,
           \A q \in Request:
              \/ message'[q] = message[q]
              \/ /\ message'[q].cookie \in {Keep, NoCookie}
                 /\ ~Received(q, "refresh")'
                 /\ \A f \in Family:
                      q \in Refreshing(f) /\ message[q].step = "answer" => f \in contested',
           jar'.refresh \in {jar.refresh, NoCookie},
           contested \subseteq contested',
           \A f \in Family:
              \/ session'[f] = session[f]
              \/ session'[f].status = "ended"
              \/ session'[f].status = "replayed" /\ f \in contested
    PROVE  CookieInv'
<1>1. NoneYet'
  BY CookieFacts DEF CookieInv, NoneYet
<1>2. ASSUME NEW f \in Family, session'[f].status = "open", f \notin contested'
      PROVE  Current(f)'
  <2>1. session'[f] = session[f] /\ Current(f)
    BY <1>2 DEF CookieInv
  <2>2. \A q \in Request: message'[q].cookie \in CookieOf(f) => message'[q] = message[q]
    BY CookieFacts
  <2>3. Refreshing(f)' \subseteq Refreshing(f)
    BY <2>2 DEF Refreshing
  <2>4. \A q \in Refreshing(f):
          message[q].step = "answer" => q \in Refreshing(f)' /\ message'[q] = message[q]
    BY <1>2 DEF Refreshing
  <2>5. jar'.refresh \in CookieOf(f) => jar'.refresh = jar.refresh
    BY CookieFacts
  <2> QED
    BY <2>1, <2>2, <2>3, <2>4, <2>5 DEF Current
<1>3. CookieSent'
  BY DEF CookieInv, CookieSent, Received
<1>4. ReplayNeedsTrouble'
  BY DEF CookieInv, ReplayNeedsTrouble
<1> QED
  BY <1>1, <1>2, <1>3, <1>4 DEF CookieInv

LEMMA SendRefreshCookie ==
    ASSUME TypeOK, CookieInv, NEW m \in Request, SendRefresh(m)
    PROVE  CookieInv'
<1> DEFINE c == jar.refresh
           g == jar.refresh.family
<1>1. /\ c \in Cookie /\ g \in Family /\ c \in CookieOf(g)
      /\ \A f \in Family: c \in CookieOf(f) => f = g
  BY CookieFacts DEF TypeOK, SendRefresh
<1>2. /\ message[m] = Idle
      /\ message'[m].step = "sent" /\ message'[m].kind = "refresh" /\ message'[m].cookie = c
      /\ \A q \in Request: q # m => message'[q] = message[q]
  <2>1. "refresh" \in Kind
    BY DEF Kind
  <2> QED
    BY <1>1, <2>1, SentOff DEF SendRefresh
<1>3. /\ UNCHANGED <<session, jar>>
      /\ contested' = IF Refreshing(g) # {} THEN contested \cup {g} ELSE contested
  BY DEF SendRefresh, Send, server
<1>4. NoneYet'
  BY <1>1, <1>2, <1>3 DEF CookieInv, NoneYet
<1>5. ASSUME NEW f \in Family, session'[f].status = "open", f \notin contested'
      PROVE  Current(f)'
  <2>1. Current(f) /\ session[f] = session'[f]
    BY <1>3, <1>5 DEF CookieInv
  <2>2. CASE f # g
    <3>1. \A q \in Request: message'[q].cookie \in CookieOf(f) <=> message[q].cookie \in CookieOf(f)
      BY <1>1, <1>2, <2>2, IdleMessage, CookieFacts
    <3>2. \A q \in Request: message'[q].cookie \in CookieOf(f) => message'[q] = message[q]
      BY <1>1, <1>2, <2>2
    <3>3. Refreshing(f)' = Refreshing(f)
      BY <3>1, <3>2 DEF Refreshing
    <3> QED
      BY <1>3, <2>1, <3>1, <3>2, <3>3 DEF Current, Refreshing
  <2>3. CASE f = g
    <3>1. Refreshing(f) = {} /\ c.n = session[f].newest
      BY <1>1, <1>3, <1>5, <2>1, <2>3 DEF Current
    <3>2. \A q \in Request: message[q].cookie \notin CookieOf(f)
      BY <1>1, <2>1, <2>3, <3>1 DEF Current, Refreshing
    <3>3. \A q \in Request: message'[q].cookie \in CookieOf(f) => q = m
      BY <1>2, <3>2
    <3> QED
      BY <1>2, <1>3, <3>1, <3>3 DEF Current, Refreshing
  <2> QED
    BY <2>2, <2>3
<1>6. CookieSent' /\ ReplayNeedsTrouble'
  BY <1>1, <1>2, <1>3 DEF CookieInv, CookieSent, Received, ReplayNeedsTrouble
<1> QED
  BY <1>4, <1>5, <1>6 DEF CookieInv

LEMMA ReceiveCookie ==
    ASSUME TypeOK, CookieInv, NEW m \in Request, Receive(m)
    PROVE  CookieInv'
<1>1. /\ message[m].step = "answer" /\ jar' = Stored(m)
      /\ message' = [message EXCEPT ![m] = Idle]
      /\ UNCHANGED <<session, contested>>
  BY DEF Receive, server, history
<1>2. /\ message'[m] = Idle
      /\ \A q \in Request: q # m => message'[q] = message[q]
  BY <1>1, Dropped
<1>3. jar'.refresh = IF message[m].cookie = Keep THEN jar.refresh ELSE message[m].cookie
  BY <1>1, StoredCookies
<1>4. \A f \in Family, q \in Request:
         message'[q].cookie \in CookieOf(f) => q # m /\ message'[q] = message[q]
  BY <1>2, IdleMessage, CookieFacts
<1>5. NoneYet'
  BY <1>1, <1>3, <1>4 DEF CookieInv, NoneYet
<1>6. ASSUME NEW f \in Family, session'[f].status = "open", f \notin contested'
      PROVE  Current(f)'
  <2>1. Current(f) /\ session[f] = session'[f]
    BY <1>1, <1>6 DEF CookieInv
  <2>2. Refreshing(f)' = Refreshing(f) \ {m}
    BY <1>2, <1>4 DEF Refreshing
  <2>3. CASE message[m].cookie \in CookieOf(f)
    <3>1. message[m].cookie # Keep /\ jar'.refresh.n = session[f].newest
      BY <1>3, <2>1, <2>3, CookieFacts DEF Current
    <3>2. \A q \in Request: message'[q].cookie \notin CookieOf(f)
      BY <1>4, <2>1, <2>3 DEF Current, Refreshing
    <3> QED
      BY <1>1, <2>1, <2>2, <3>1, <3>2 DEF Current
  <2>4. CASE message[m].cookie \notin CookieOf(f)
    <3>1. jar'.refresh \in CookieOf(f) => jar'.refresh = jar.refresh
      BY <1>3, <2>4
    <3>2. Refreshing(f)' = Refreshing(f) /\ \A q \in Refreshing(f): message'[q] = message[q]
      BY <1>2, <2>2, <2>4 DEF Refreshing
    <3> QED
      BY <1>1, <1>4, <2>1, <3>1, <3>2 DEF Current
  <2> QED
    BY <2>3, <2>4
<1>7. CookieSent' /\ ReplayNeedsTrouble'
  BY <1>1, <1>2, IdleMessage DEF CookieInv, CookieSent, Received, ReplayNeedsTrouble
<1> QED
  BY <1>5, <1>6, <1>7 DEF CookieInv

\* The first cookie of a new session.
LEMMA OpenedCookie ==
    ASSUME TypeOK, CookieInv, NEW m \in Request, NEW g \in Family,
           message[m].step = "sent", message[m].kind # "refresh",
           NEW held \in State \cup {NoState, Keep},
           session[g].status = "unborn",
           session' = [session EXCEPT ![g].status = "open"],
           Reply(m, [family |-> g, n |-> 0], held),
           UNCHANGED <<jar, contested>>
    PROVE  CookieInv'
<1> DEFINE c == [family |-> g, n |-> 0]
<1>1. c \in Cookie /\ c.n = 0 /\ \A f \in Family: c \in CookieOf(f) <=> f = g
  BY CookieFacts, MaxRotationsAssumption
<1>2. /\ message'[m].step = "answer" /\ message'[m].kind = message[m].kind
      /\ message'[m].cookie = c
      /\ \A q \in Request: q # m => message'[q] = message[q]
  BY <1>1, Replied
<1> HIDE DEF c
<1>3. /\ session'[g].status = "open" /\ session'[g].newest = session[g].newest
      /\ \A f \in Family: f # g => session'[f] = session[f]
  BY DEF TypeOK
<1>4. NoneYet'
  BY <1>1, <1>2, <1>3 DEF CookieInv, NoneYet
<1>5. ASSUME NEW f \in Family, session'[f].status = "open", f \notin contested'
      PROVE  Current(f)'
  <2>1. CASE f = g
    <3>1. /\ session[f].newest = 0 /\ jar.refresh \notin CookieOf(f)
          /\ \A q \in Request: message'[q].cookie \in CookieOf(f) => q = m
      BY <1>2, <2>1 DEF CookieInv, NoneYet
    <3> QED
      BY <1>1, <1>2, <1>3, <2>1, <3>1 DEF Current, Refreshing
  <2>2. CASE f # g
    <3>1. Current(f) /\ session'[f] = session[f]
      BY <1>3, <1>5, <2>2 DEF CookieInv
    <3>2. \A q \in Request: message'[q].cookie \in CookieOf(f) => message'[q] = message[q]
      BY <1>1, <1>2, <2>2
    <3>3. Refreshing(f)' = Refreshing(f)
      BY <1>2, <3>2 DEF Refreshing
    <3>4. \A q \in Refreshing(f): message'[q] = message[q]
      BY <1>2 DEF Refreshing
    <3> QED
      BY <3>1, <3>2, <3>3, <3>4 DEF Current
  <2> QED
    BY <2>1, <2>2
<1>6. CookieSent' /\ ReplayNeedsTrouble'
  BY <1>2, <1>3 DEF CookieInv, CookieSent, Received, ReplayNeedsTrouble
<1> QED
  BY <1>4, <1>5, <1>6 DEF CookieInv

\* The newest token is rotated: the answer has the cookie of its successor.
LEMMA RotatedCookie ==
    ASSUME TypeOK, CookieInv, NEW m \in Request, NEW g \in Family, NEW k \in 0 .. MaxRotations,
           Received(m, "refresh"), message[m].cookie \in CookieOf(g),
           session[g].status = "open",
           session' = [session EXCEPT ![g].newest = k],
           Reply(m, [family |-> g, n |-> k], Keep),
           UNCHANGED <<jar, contested>>
    PROVE  CookieInv'
<1> DEFINE c == [family |-> g, n |-> k]
<1>1. c \in Cookie /\ c.n = k /\ \A f \in Family: c \in CookieOf(f) <=> f = g
  BY CookieFacts
<1>2. /\ message'[m].step = "answer" /\ message'[m].kind = "refresh"
      /\ message'[m].cookie = c
      /\ \A q \in Request: q # m => message'[q] = message[q]
  BY <1>1, Replied DEF Received
<1> HIDE DEF c
<1>3. /\ session'[g].status = "open" /\ session'[g].newest = k
      /\ \A f \in Family: f # g => session'[f] = session[f]
      /\ m \in Refreshing(g)
  BY DEF TypeOK, Received, Refreshing
<1>4. NoneYet'
  BY <1>1, <1>2, <1>3 DEF CookieInv, NoneYet
<1>5. ASSUME NEW f \in Family, session'[f].status = "open", f \notin contested'
      PROVE  Current(f)'
  <2>1. CASE f = g
    <3>1. Current(f)
      BY <1>5, <2>1 DEF CookieInv
    <3>2. \A q \in Request: q # m => message[q].cookie \notin CookieOf(f)
      BY <1>3, <2>1, <3>1 DEF Current, Refreshing
    <3>3. \A q \in Request: message'[q].cookie \in CookieOf(f) => q = m
      BY <1>2, <3>2
    <3>4. m \in Refreshing(f)'
      BY <1>1, <1>2, <2>1 DEF Refreshing
    <3> QED
      BY <1>1, <1>2, <1>3, <2>1, <3>3, <3>4 DEF Current, Refreshing
  <2>2. CASE f # g
    <3>1. Current(f) /\ session'[f] = session[f]
      BY <1>3, <1>5, <2>2 DEF CookieInv
    <3>2. \A q \in Request: message'[q].cookie \in CookieOf(f) => message'[q] = message[q]
      BY <1>1, <1>2, <2>2
    <3>3. m \notin Refreshing(f)
      BY <2>2, CookieFacts DEF Refreshing
    <3>4. Refreshing(f)' = Refreshing(f) /\ \A q \in Refreshing(f): message'[q] = message[q]
      BY <1>2, <3>2, <3>3 DEF Refreshing
    <3> QED
      BY <3>1, <3>2, <3>4 DEF Current
  <2> QED
    BY <2>1, <2>2
<1>6. CookieSent' /\ ReplayNeedsTrouble'
  BY <1>2, <1>3 DEF CookieInv, CookieSent, Received, ReplayNeedsTrouble
<1> QED
  BY <1>4, <1>5, <1>6 DEF CookieInv

\* An answer that sets no cookie of a session, and sessions that end.
LEMMA QuietCookie ==
    ASSUME TypeOK, CookieInv, NEW m \in Request, message[m].step = "sent",
           NEW cookie \in {Keep, NoCookie}, NEW held \in State \cup {NoState, Keep},
           Reply(m, cookie, held),
           UNCHANGED <<jar, contested>>,
           \A f \in Family:
              \/ session'[f] = session[f]
              \/ session'[f].status = "ended"
              \/ session'[f].status = "replayed" /\ f \in contested
    PROVE  CookieInv'
<1>1. /\ message'[m].step = "answer" /\ message'[m].cookie = cookie
      /\ \A q \in Request: q # m => message'[q] = message[q]
  BY Replied
<1>2. \A q \in Request:
         \/ message'[q] = message[q]
         \/ /\ message'[q].cookie \in {Keep, NoCookie}
            /\ ~Received(q, "refresh")'
            /\ \A f \in Family:
                 q \in Refreshing(f) /\ message[q].step = "answer" => f \in contested'
  BY <1>1 DEF Received
<1> QED
  BY <1>2, FewerCookies

LEMMA SignInCookie ==
    ASSUME TypeOK, CookieInv, NEW m \in Request, NEW held \in State \cup {NoState, Keep},
           message[m].step = "sent", message[m].kind # "refresh",
           SignIn(m, held),
           UNCHANGED <<jar, contested>>
    PROVE  CookieInv'
<1>1. CASE Reply(m, Keep, held) /\ UNCHANGED session
  BY <1>1, QuietCookie
<1>2. ASSUME NEW f \in Family, session[f].status = "unborn",
             session' = [session EXCEPT ![f].status = "open"],
             Reply(m, [family |-> f, n |-> 0], held)
      PROVE  CookieInv'
  BY <1>2, OpenedCookie
<1> QED
  BY <1>1, <1>2 DEF SignIn

LEMMA ReplayedSession ==
    ASSUME TypeOK, NEW f \in Family,
           session' = [session EXCEPT ![f] = [status |-> "replayed", newest |-> 0]]
    PROVE  \A g \in Family:
              \/ session'[g] = session[g]
              \/ session'[g].status = "replayed" /\ g = f
<1> DEFINE new == [status |-> "replayed", newest |-> 0]
<1>1. new.status = "replayed"
  OBVIOUS
<1>2. session' = [session EXCEPT ![f] = new]
  OBVIOUS
<1> HIDE DEF new
<1> QED
  BY <1>1, <1>2 DEF TypeOK

LEMMA ReplayCookie ==
    ASSUME TypeOK, CookieInv, NEW m \in Request, message[m].step = "sent",
           NEW f \in Family, f \in contested,
           session' = [session EXCEPT ![f] = [status |-> "replayed", newest |-> 0]],
           Reply(m, Keep, Keep),
           UNCHANGED <<jar, contested>>
    PROVE  CookieInv'
<1>1. \A g \in Family:
         \/ session'[g] = session[g]
         \/ session'[g].status = "replayed" /\ g \in contested
  BY ReplayedSession
<1> QED
  BY <1>1, QuietCookie

LEMMA HandleRefreshCookie ==
    ASSUME TypeOK, CookieInv, NEW m \in Request, HandleRefresh(m)
    PROVE  CookieInv'
<1> DEFINE f == message[m].cookie.family
           n == message[m].cookie.n
<1>1. /\ Received(m, "refresh") /\ message[m].step = "sent"
      /\ UNCHANGED <<jar, contested>>
  BY DEF HandleRefresh, Received, history
<1>2. /\ message[m].cookie \in Cookie
      /\ f \in Family /\ message[m].cookie \in CookieOf(f) /\ n \in 0 .. MaxRotations
  BY <1>1, CookieFacts DEF CookieInv, CookieSent
<1>3. CASE /\ f \in Open /\ n = session[f].newest /\ n < MaxRotations
           /\ session' = [session EXCEPT ![f].newest = n + 1]
           /\ Reply(m, [family |-> f, n |-> n + 1], Keep)
  <2>1. n + 1 \in 0 .. MaxRotations /\ session[f].status = "open"
    BY <1>2, <1>3, MaxRotationsAssumption DEF Open
  <2> QED
    BY <1>1, <1>2, <1>3, <2>1, RotatedCookie
<1>4. CASE /\ f \in Open /\ n # session[f].newest
           /\ session' = [session EXCEPT ![f] = [status |-> "replayed", newest |-> 0]]
           /\ Reply(m, Keep, Keep)
  <2>1. f \in contested
    BY <1>2, <1>4 DEF CookieInv, Current, Open
  <2> QED
    BY <1>1, <1>2, <1>4, <2>1, ReplayCookie
<1>5. CASE Reply(m, Keep, Keep) /\ UNCHANGED session
  BY <1>1, <1>5, QuietCookie
<1> QED
  BY <1>3, <1>4, <1>5 DEF HandleRefresh

LEMMA HandleCookie ==
    ASSUME TypeOK, CookieInv, NEW m \in Request, Handle(m)
    PROVE  CookieInv'
<1>1. CASE HandleLogin(m)
  BY <1>1, SignInCookie DEF HandleLogin, Received, history
<1>2. CASE HandleLogout(m)
  <2>1. message[m].step = "sent" /\ UNCHANGED <<jar, contested>>
    BY <1>2 DEF HandleLogout, Received, history
  <2>2. ASSUME NEW F \in SUBSET Open, session' = Ended(F), Reply(m, NoCookie, Keep)
        PROVE  CookieInv'
    <3>1. \A f \in Family: session'[f] = session[f] \/ session'[f].status = "ended"
      BY <2>2 DEF Ended
    <3> QED
      BY <2>1, <2>2, <3>1, QuietCookie
  <2>3. CASE Reply(m, Keep, Keep) /\ UNCHANGED session
    BY <2>1, <2>3, QuietCookie
  <2> QED
    BY <1>2, <2>2, <2>3 DEF HandleLogout
<1>3. ASSUME NEW s \in State, HandleStart(m, s) PROVE CookieInv'
  <2>1. message[m].step = "sent" /\ UNCHANGED <<session, jar, contested>> /\ Reply(m, Keep, s)
    BY <1>3 DEF HandleStart, Received, history
  <2> QED
    BY <2>1, QuietCookie
<1>4. CASE HandleCallback(m)
  <2>1. /\ message[m].step = "sent" /\ message[m].kind # "refresh"
        /\ UNCHANGED <<jar, contested>>
    BY <1>4 DEF HandleCallback, Received
  <2>2. CASE SignIn(m, StateCleared)
    BY <2>1, <2>2, SignInCookie DEF StateCleared
  <2>3. CASE Reply(m, Keep, StateCleared) /\ UNCHANGED session
    BY <2>1, <2>3, QuietCookie DEF StateCleared
  <2> QED
    BY <1>4, <2>2, <2>3 DEF HandleCallback
<1> QED
  BY <1>1, <1>2, <1>3, <1>4, HandleRefreshCookie DEF Handle

LEMMA CookieStep ==
    ASSUME TypeOK, CookieInv, [Next]_vars
    PROVE  CookieInv'
<1>1. ASSUME NEW m \in Request, NEW kind \in Kind, SendPlain(m, kind) PROVE CookieInv'
  <2>1. /\ kind # "refresh" /\ UNCHANGED <<session, jar, contested>>
        /\ Send(m, kind, NoCookie, NoState, NoState)
    BY <1>1 DEF SendPlain, Send, server
  <2>2. /\ message[m] = Idle /\ message'[m].kind = kind /\ message'[m].cookie = NoCookie
        /\ \A q \in Request: q # m => message'[q] = message[q]
    BY <2>1, SentOff
  <2>3. ~Received(m, "refresh")' /\ message[m].step # "answer"
    BY <2>1, <2>2, IdleMessage DEF Received
  <2> QED
    BY <2>1, <2>2, <2>3, FewerCookies
<1>2. ASSUME NEW m \in Request, NEW s \in State \cup {Foreign}, SendCallback(m, s) PROVE CookieInv'
  <2>1. /\ UNCHANGED <<session, jar, contested>>
        /\ Send(m, "callback", NoCookie, jar.state, s)
    BY <1>2 DEF SendCallback, Send, server
  <2>2. /\ message[m] = Idle /\ message'[m].kind = "callback" /\ message'[m].cookie = NoCookie
        /\ \A q \in Request: q # m => message'[q] = message[q]
    <3>1. jar.state \in State \cup {NoState} /\ "callback" \in Kind
      BY DEF TypeOK, Kind
    <3> QED
      BY <2>1, <3>1, SentOff
  <2>3. ~Received(m, "refresh")' /\ message[m].step # "answer"
    BY <2>2, IdleMessage DEF Received
  <2> QED
    BY <2>1, <2>2, <2>3, FewerCookies
<1>3. ASSUME NEW m \in Request, Lose(m) PROVE CookieInv'
  <2>1. /\ UNCHANGED <<session, jar>>
        /\ contested' = contested \cup
             {f \in Family: message[m].step = "answer" /\ m \in Refreshing(f)}
        /\ message' = [message EXCEPT ![m] = Idle]
    BY <1>3 DEF Lose, server
  <2>2. message'[m] = Idle /\ \A q \in Request: q # m => message'[q] = message[q]
    BY <2>1, Dropped
  <2> QED
    BY <2>1, <2>2, IdleMessage, FewerCookies DEF Received
<1>4. CASE ForgetRefresh \/ ForgetState
  <2>1. /\ UNCHANGED <<session, message, contested>>
        /\ jar'.refresh \in {jar.refresh, NoCookie}
    BY <1>4 DEF ForgetRefresh, ForgetState, server, history, TypeOK
  <2> QED
    BY <2>1, FewerCookies
<1>5. ASSUME NEW f \in Family, EndElsewhere(f) PROVE CookieInv'
  <2>1. /\ UNCHANGED <<message, jar, contested>>
        /\ \A g \in Family: session'[g] = session[g] \/ session'[g].status = "ended"
    BY <1>5 DEF EndElsewhere, Ended, history
  <2> QED
    BY <2>1, FewerCookies
<1>6. CASE UNCHANGED vars
  <2>1. UNCHANGED <<session, message, jar, contested>>
    BY <1>6 DEF vars, server, history
  <2> QED
    BY <2>1, FewerCookies
<1> QED
  BY <1>1, <1>2, <1>3, <1>4, <1>5, <1>6, SendRefreshCookie, ReceiveCookie, HandleCookie DEF Next

-----------------------------------------------------------------------------
(* The state cookie *)

\* Callbacks with the state s, on their way there or back.
CallingBack(s) == {m \in Request: message[m].kind = "callback" /\ message[m].query = s}

\* Whatever holds a state holds one that was drawn; answers to a start bring it, callbacks
\* carry it, and nothing else does.
HeldDrawn ==
    /\ jar.state \in drawn \cup {NoState}
    /\ passed.once \subseteq drawn
    /\ \A m \in Request: message[m].held \in State =>
         /\ message[m].held \in drawn
         /\ \/ message[m].kind = "start" /\ message[m].step = "answer"
            \/ message[m].kind = "callback" /\ message[m].step = "sent"
    /\ \A m \in Request: message[m].step = "answer" =>
         /\ message[m].kind = "callback" => message[m].held = NoState
         /\ message[m].kind = "start" => message[m].held \in State

\* The state in the answer to a start has not been anywhere else.
StartFresh ==
    \A m \in Request: message[m].kind = "start" /\ message[m].held \in State =>
        /\ message[m].held # jar.state
        /\ message[m].held \notin passed.once
        /\ \A q \in Request: q # m => message[q].held # message[m].held

\* A state that has passed, and is not repeated, has no callback that holds it, and an
\* answer is about to clear it if the jar still does.
SpentState ==
    \A s \in State \ repeated:
        /\ \A m, q \in CallingBack(s): m = q
        /\ s \in passed.once =>
             /\ jar.state = s => \E m \in CallingBack(s): message[m].step = "answer"
             /\ \A m \in CallingBack(s): message[m].step = "sent" => message[m].held # s

StateInv == HeldDrawn /\ StartFresh /\ SpentState /\ PassesOnce

LEMMA InitState == Init => StateInv
<1> SUFFICES ASSUME Init PROVE StateInv
  OBVIOUS
<1>1. /\ jar.state = NoState /\ passed.once = {} /\ passed.twice = {}
      /\ \A m \in Request: message[m] = Idle
  BY DEF Init
<1> QED
  BY <1>1, IdleMessage, StateFacts
  DEF StateInv, HeldDrawn, StartFresh, SpentState, PassesOnce, CallingBack

\* Steps of other requests than callbacks, which set no state.
LEMMA QuietState ==
    ASSUME StateInv,
           \A q \in Request:
              \/ message'[q] = message[q]
              \/ /\ message[q].kind # "callback" /\ message'[q].kind # "callback"
                 /\ message'[q].held \in {NoState, Keep}
                 /\ ~(message'[q].kind = "start" /\ message'[q].step = "answer"),
           jar'.state \in {jar.state, NoState},
           UNCHANGED <<drawn, repeated, passed>>
    PROVE  StateInv'
<1>1. \A q \in Request: message'[q].held \in State => message'[q] = message[q]
  BY StateFacts
<1>2. \A s \in State: CallingBack(s)' = CallingBack(s)
  BY DEF CallingBack
<1>3. \A s \in State: \A q \in CallingBack(s): message'[q] = message[q]
  BY DEF CallingBack
<1>4. HeldDrawn'
  BY <1>1 DEF StateInv, HeldDrawn
<1>5. StartFresh'
  BY <1>1, StateFacts DEF StateInv, StartFresh
<1>6. SpentState' /\ PassesOnce'
  BY <1>2, <1>3, StateFacts DEF StateInv, SpentState, PassesOnce
<1> QED
  BY <1>4, <1>5, <1>6 DEF StateInv

LEMMA SendCallbackState ==
    ASSUME TypeOK, StateInv, NEW m \in Request, NEW s \in State \cup {Foreign}, SendCallback(m, s)
    PROVE  StateInv'
<1>1. /\ message[m] = Idle
      /\ message'[m].step = "sent" /\ message'[m].kind = "callback"
      /\ message'[m].held = jar.state /\ message'[m].query = s
      /\ \A q \in Request: q # m => message'[q] = message[q]
  <2>1. jar.state \in State \cup {NoState} /\ "callback" \in Kind
    BY DEF TypeOK, Kind
  <2> QED
    BY <2>1, SentOff DEF SendCallback
<1>2. /\ UNCHANGED <<jar, drawn, passed>>
      /\ repeated \subseteq repeated'
      /\ s \in State /\ CallingBack(s) # {} => s \in repeated'
  BY DEF SendCallback, Send, server, CallingBack
<1>3. HeldDrawn' /\ StartFresh'
  BY <1>1, <1>2, StateFacts DEF StateInv, HeldDrawn, StartFresh
<1>4. ASSUME NEW t \in State \ repeated', t # s PROVE CallingBack(t)' = CallingBack(t)
  BY <1>1, <1>4, IdleMessage DEF CallingBack
<1>5. \A t \in State \ repeated': t = s => CallingBack(t) = {} /\ CallingBack(t)' = {m}
  BY <1>1, <1>2 DEF CallingBack
<1>6. \A t \in State: \A q \in CallingBack(t): message'[q] = message[q]
  BY <1>1, IdleMessage DEF CallingBack
<1>7. SpentState'
  BY <1>1, <1>2, <1>4, <1>5, <1>6 DEF StateInv, SpentState
<1>8. PassesOnce'
  BY <1>2 DEF StateInv, PassesOnce
<1> QED
  BY <1>3, <1>7, <1>8 DEF StateInv

LEMMA ReceiveState ==
    ASSUME TypeOK, StateInv, NEW m \in Request, Receive(m)
    PROVE  StateInv'
<1>1. /\ message[m].step = "answer" /\ jar' = Stored(m)
      /\ message' = [message EXCEPT ![m] = Idle]
      /\ UNCHANGED <<drawn, repeated, passed>>
  BY DEF Receive, server, history
<1>2. /\ message'[m] = Idle
      /\ \A q \in Request: q # m => message'[q] = message[q]
  BY <1>1, Dropped
<1>3. /\ message[m] \in Answer
      /\ jar'.state = IF message[m].held = Keep THEN jar.state ELSE message[m].held
  BY <1>1, StoredCookies
<1>4. \/ jar'.state \in {jar.state, NoState}
      \/ message[m].kind = "start" /\ message[m].held \in State /\ jar'.state = message[m].held
  BY <1>1, <1>3 DEF Answer, StateInv, HeldDrawn
<1>5. HeldDrawn' /\ StartFresh'
  BY <1>1, <1>2, <1>4, IdleMessage, StateFacts DEF StateInv, HeldDrawn, StartFresh
<1>6. SpentState'
  <2> SUFFICES ASSUME NEW s \in State \ repeated
               PROVE  /\ \A q, p \in CallingBack(s)': q = p
                      /\ s \in passed.once =>
                           /\ jar'.state = s =>
                                \E q \in CallingBack(s)': message'[q].step = "answer"
                           /\ \A q \in CallingBack(s)':
                                message'[q].step = "sent" => message'[q].held # s
    BY <1>1 DEF SpentState
  <2>1. CallingBack(s)' = CallingBack(s) \ {m} /\ \A q \in CallingBack(s)': message'[q] = message[q]
    BY <1>2, IdleMessage DEF CallingBack
  <2>2. ASSUME s \in passed.once, jar'.state = s
        PROVE  \E q \in CallingBack(s)': message'[q].step = "answer"
    <3>1. jar.state = s /\ message[m].kind # "callback"
      BY <1>1, <1>3, <1>4, <2>2, StateFacts DEF StateInv, HeldDrawn, StartFresh
    <3>2. m \notin CallingBack(s)
      BY <3>1 DEF CallingBack
    <3> QED
      BY <2>1, <2>2, <3>1, <3>2 DEF StateInv, SpentState
  <2> QED
    BY <2>1, <2>2 DEF StateInv, SpentState
<1>7. PassesOnce'
  BY <1>1 DEF StateInv, PassesOnce
<1> QED
  BY <1>5, <1>6, <1>7 DEF StateInv

LEMMA LoseState ==
    ASSUME TypeOK, StateInv, NEW m \in Request, Lose(m)
    PROVE  StateInv'
<1>1. /\ UNCHANGED <<drawn, jar, passed>>
      /\ message' = [message EXCEPT ![m] = Idle]
      /\ repeated \subseteq repeated'
      /\ \A s \in State: message[m].step = "answer" /\ m \in CallingBack(s) => s \in repeated'
  BY DEF Lose, server, CallingBack
<1>2. /\ message'[m] = Idle
      /\ \A q \in Request: q # m => message'[q] = message[q]
  BY <1>1, Dropped
<1>3. HeldDrawn' /\ StartFresh'
  BY <1>1, <1>2, IdleMessage, StateFacts DEF StateInv, HeldDrawn, StartFresh
<1>4. \A s \in State: /\ CallingBack(s)' = CallingBack(s) \ {m}
                      /\ \A q \in CallingBack(s)': message'[q] = message[q]
  BY <1>2, IdleMessage DEF CallingBack
<1>5. SpentState'
  BY <1>1, <1>4 DEF StateInv, SpentState
<1>6. PassesOnce'
  BY <1>1 DEF StateInv, PassesOnce
<1> QED
  BY <1>3, <1>5, <1>6 DEF StateInv

LEMMA HandleStartState ==
    ASSUME TypeOK, StateInv, NEW m \in Request, NEW s \in State, HandleStart(m, s)
    PROVE  StateInv'
<1>1. /\ message[m].step = "sent" /\ message[m].kind = "start" /\ Reply(m, Keep, s)
      /\ s \notin drawn /\ drawn' = drawn \cup {s}
      /\ UNCHANGED <<jar, repeated, passed>>
  BY DEF HandleStart, Received, history
<1>2. /\ message'[m].step = "answer" /\ message'[m].kind = "start" /\ message'[m].held = s
      /\ \A q \in Request: q # m => message'[q] = message[q]
  BY <1>1, Replied
<1>3. HeldDrawn' /\ StartFresh'
  BY <1>1, <1>2, StateFacts DEF StateInv, HeldDrawn, StartFresh
<1>4. \A t \in State: /\ CallingBack(t)' = CallingBack(t)
                      /\ \A q \in CallingBack(t): message'[q] = message[q]
  BY <1>1, <1>2 DEF CallingBack
<1>5. SpentState' /\ PassesOnce'
  BY <1>1, <1>4 DEF StateInv, SpentState, PassesOnce
<1> QED
  BY <1>3, <1>5 DEF StateInv

LEMMA HandleCallbackState ==
    ASSUME TypeOK, StateInv, NEW m \in Request, HandleCallback(m)
    PROVE  StateInv'
<1> DEFINE s == message[m].query
           held == message[m].held
<1>1. /\ message[m].step = "sent" /\ message[m].kind = "callback"
      /\ UNCHANGED <<drawn, jar, repeated>>
  BY DEF HandleCallback, Received
<1>2. \E cookie \in Cookie \cup {NoCookie, Keep}: Reply(m, cookie, NoState)
  <2>1. SignIn(m, NoState) => \E cookie \in Cookie \cup {NoCookie, Keep}: Reply(m, cookie, NoState)
    BY SignInType
  <2> QED
    BY <2>1 DEF HandleCallback, StateCleared
<1>3. /\ message[m] \in Sent
      /\ message'[m].step = "answer" /\ message'[m].kind = "callback"
      /\ message'[m].held = NoState /\ message'[m].query = s
      /\ \A q \in Request: q # m => message'[q] = message[q]
  BY <1>1, <1>2, Replied
<1>4. \/ /\ held = s /\ s \in State
         /\ passed'.once = passed.once \cup {s}
         /\ passed'.twice = passed.twice \cup ({s} \cap passed.once)
      \/ UNCHANGED passed
  <2>1. held \in State \cup {NoState}
    BY <1>3 DEF Sent
  <2> QED
    BY <2>1 DEF HandleCallback, StatesMatch
<1>5. \A t \in State: CallingBack(t)' = CallingBack(t) /\ (m \in CallingBack(t) <=> t = s)
  BY <1>1, <1>3 DEF CallingBack
<1>6. HeldDrawn'
  BY <1>1, <1>3, <1>4, StateFacts DEF StateInv, HeldDrawn
<1>7. StartFresh'
  BY <1>1, <1>3, <1>4, StateFacts DEF StateInv, HeldDrawn, StartFresh
<1>8. SpentState'
  <2> SUFFICES ASSUME NEW t \in State \ repeated
               PROVE  /\ \A q, p \in CallingBack(t)': q = p
                      /\ t \in passed'.once =>
                           /\ jar'.state = t =>
                                \E q \in CallingBack(t)': message'[q].step = "answer"
                           /\ \A q \in CallingBack(t)':
                                message'[q].step = "sent" => message'[q].held # t
    BY <1>1 DEF SpentState
  <2>1. CASE t = s
    <3>1. CallingBack(t)' = {m}
      BY <1>5, <2>1 DEF StateInv, SpentState
    <3> QED
      BY <1>3, <3>1
  <2>2. CASE t # s
    <3>1. t \in passed'.once => t \in passed.once
      BY <1>4, <2>2
    <3>2. \A q \in CallingBack(t): message'[q] = message[q]
      BY <1>3, <1>5, <2>2 DEF CallingBack
    <3> QED
      BY <1>1, <1>5, <3>1, <3>2 DEF StateInv, SpentState
  <2> QED
    BY <2>1, <2>2
<1>9. PassesOnce'
  <2>1. held = s /\ s \in State /\ s \in passed.once => s \in repeated
    BY <1>1, <1>5 DEF StateInv, SpentState
  <2> QED
    BY <1>1, <1>4, <2>1 DEF StateInv, PassesOnce
<1> QED
  BY <1>6, <1>7, <1>8, <1>9 DEF StateInv

LEMMA StateStep ==
    ASSUME TypeOK, StateInv, CookieInv, [Next]_vars
    PROVE  StateInv'
<1>1. ASSUME NEW m \in Request, NEW kind \in Kind, SendPlain(m, kind) PROVE StateInv'
  <2>1. /\ kind # "callback" /\ UNCHANGED <<jar, drawn, repeated, passed>>
        /\ Send(m, kind, NoCookie, NoState, NoState)
    BY <1>1 DEF SendPlain, Send, server
  <2>2. /\ message[m] = Idle /\ message'[m].kind = kind /\ message'[m].held = NoState
        /\ message'[m].step = "sent"
        /\ \A q \in Request: q # m => message'[q] = message[q]
    BY <2>1, SentOff
  <2> QED
    BY <2>1, <2>2, IdleMessage, QuietState
<1>2. ASSUME NEW m \in Request, SendRefresh(m) PROVE StateInv'
  <2>1. /\ UNCHANGED <<jar, drawn, repeated, passed>>
        /\ Send(m, "refresh", jar.refresh, NoState, NoState)
    BY <1>2 DEF SendRefresh, Send, server
  <2>2. /\ message[m] = Idle /\ message'[m].kind = "refresh" /\ message'[m].held = NoState
        /\ \A q \in Request: q # m => message'[q] = message[q]
    <3>1. jar.refresh \in Cookie \cup {NoCookie} /\ "refresh" \in Kind
      BY DEF TypeOK, Kind
    <3> QED
      BY <2>1, <3>1, SentOff
  <2> QED
    BY <2>1, <2>2, IdleMessage, QuietState
<1>3. ASSUME NEW m \in Request, HandleLogin(m) \/ HandleRefresh(m) \/ HandleLogout(m)
      PROVE  StateInv'
  <2>1. /\ message[m].step = "sent" /\ message[m].kind \in {"login", "refresh", "logout"}
        /\ UNCHANGED <<jar, drawn, repeated, passed>>
    BY <1>3 DEF HandleLogin, HandleRefresh, HandleLogout, Received, history
  <2>2. \E cookie \in Cookie \cup {NoCookie, Keep}: Reply(m, cookie, Keep)
    <3>1. CASE HandleLogin(m)
      BY <3>1, SignInType DEF HandleLogin
    <3>2. CASE HandleRefresh(m)
      <4>1. message[m].cookie \in Cookie
        BY <3>2 DEF HandleRefresh, CookieInv, CookieSent
      <4>2. /\ message[m].cookie.family \in Family /\ message[m].cookie.n \in 0 .. MaxRotations
        BY <4>1, CookieFacts
      <4>3. message[m].cookie.n < MaxRotations =>
               [family |-> message[m].cookie.family, n |-> message[m].cookie.n + 1] \in Cookie
        BY <4>2, MaxRotationsAssumption DEF Cookie
      <4> QED
        BY <3>2, <4>3 DEF HandleRefresh
    <3>3. CASE HandleLogout(m)
      BY <3>3 DEF HandleLogout
    <3> QED
      BY <1>3, <3>1, <3>2, <3>3
  <2>3. /\ message'[m].kind = message[m].kind /\ message'[m].held = Keep
        /\ \A q \in Request: q # m => message'[q] = message[q]
    BY <2>1, <2>2, Replied
  <2> QED
    BY <2>1, <2>3, QuietState
<1>4. CASE ForgetRefresh \/ ForgetState \/ UNCHANGED vars
  <2>1. /\ UNCHANGED <<message, drawn, repeated, passed>>
        /\ jar'.state \in {jar.state, NoState}
    BY <1>4 DEF ForgetRefresh, ForgetState, vars, server, history, TypeOK
  <2> QED
    BY <2>1, QuietState
<1>5. ASSUME NEW f \in Family, EndElsewhere(f) PROVE StateInv'
  BY <1>5, QuietState DEF EndElsewhere, history
<1> QED
  BY <1>1, <1>2, <1>3, <1>4, <1>5, SendCallbackState, ReceiveState, LoseState,
     HandleStartState, HandleCallbackState DEF Next, Handle

-----------------------------------------------------------------------------
(* Theorems *)

IInv == TypeOK /\ CookieInv /\ StateInv

LEMMA TypeStep ==
    ASSUME TypeOK, StateInv, [Next]_vars
    PROVE  TypeOK'
<1>1. ASSUME NEW m \in Request, Receive(m) PROVE TypeOK'
  <2>1. message[m].kind = "start" => message[m].held \in State
    BY <1>1 DEF Receive, StateInv, HeldDrawn
  <2> QED
    BY <1>1, <2>1, ReceiveType
<1> QED
  BY <1>1, SendType, HandleType, ElseType DEF Next

THEOREM Invariance == Spec => []IInv
<1>1. Init => IInv
  BY InitType, InitCookie, InitState DEF IInv
<1>2. IInv /\ [Next]_vars => IInv'
  BY TypeStep, CookieStep, StateStep DEF IInv
<1> QED
  BY <1>1, <1>2, PTL DEF Spec

\* The sessions, the cookies and the messages are of their kinds.
THEOREM TypeCorrect == Spec => []TypeOK
<1>1. IInv => TypeOK
  BY DEF IInv
<1> QED
  BY <1>1, Invariance, PTL

\* auth.controller.ts: a session that reuse detection has ended had two refreshes at once,
\* or the answer to one was lost.
THEOREM ReplayOnlyInTrouble == Spec => []ReplayNeedsTrouble
<1>1. IInv => ReplayNeedsTrouble
  BY DEF IInv, CookieInv
<1> QED
  BY <1>1, Invariance, PTL

\* oauth-csrf.guard.ts: a callback passes only with a state drawn for this browser.
THEOREM OwnStatesPass == Spec => []OwnFlowsOnly
<1>1. IInv => OwnFlowsOnly
  BY DEF IInv, StateInv, HeldDrawn, OwnFlowsOnly
<1> QED
  BY <1>1, Invariance, PTL

\* oauth-csrf.guard.ts: a state passes twice only if two callbacks had it at once, or the
\* answer to one was lost.
THEOREM StatesPassOnce == Spec => []PassesOnce
<1>1. IInv => PassesOnce
  BY DEF IInv, StateInv
<1> QED
  BY <1>1, Invariance, PTL
=============================================================================
