------------------------------ MODULE Browser ------------------------------
(***************************************************************************)
(* One browser and its two cookies.  refresh_token is set by every way of  *)
(* signing in and by every rotation; oauth_state ties an OAuth callback to *)
(* the browser that began.  The tabs share both, requests carry them as    *)
(* they were when they were sent, and answers arrive in any order or not   *)
(* at all.                                                                 *)
(*   src/src/modules/auth/auth.controller.ts, oauth/oauth.controller.ts,   *)
(*     the controllers of 2FA, magic links and passkeys                    *)
(*   src/src/modules/auth/token.service.ts (the cookie)                    *)
(*   src/src/common/guards/oauth-csrf.guard.ts                             *)
(*                                                                         *)
(* The server handles a request in one step here: how handlers interleave  *)
(* is the subject of RefreshTokens.  A session is its token family, with   *)
(* the number of its newest token while it is open.                        *)
(***************************************************************************)
EXTENDS Naturals

CONSTANTS
    Family,      \* sessions that may be opened
    State,       \* OAuth states that randomBytes may draw
    Foreign,     \* an OAuth state drawn for another browser
    Request,     \* requests on their way at the same time
    MaxRotations \* bound: rotations of a session

CONSTANTS Keep, NoCookie, NoState

ASSUME NullsAssumption ==
    /\ Foreign \notin State
    /\ NoState \notin State \cup {Foreign}
    /\ Keep \notin State \cup {NoState}
    /\ NoCookie # Keep
    /\ {Keep, NoCookie} \cap [family: Family, n: Nat] = {}
ASSUME MaxRotationsAssumption == MaxRotations \in Nat

VARIABLES
    session,   \* what the server knows of each session
    drawn,     \* OAuth states drawn for this browser
    jar,       \* the two cookies
    begun,     \* states of the flows that the browser may come back from
    message,   \* requests and their answers on their way
    contested, \* history: sessions with two refreshes at once, or a lost answer to one
    repeated,  \* history: states with two callbacks at once, or a lost answer to one
    passed     \* history: states that have passed the callback's guard, once and again

server == <<session, drawn>>
history == <<contested, repeated, passed>>
vars == <<server, jar, begun, message, history>>

Cookie == [family: Family, n: 0 .. MaxRotations]

Idle == [step |-> "idle", kind |-> "none", cookie |-> NoCookie,
         held |-> NoState, query |-> NoState]

Kind == {"login", "refresh", "logout", "start", "callback"}

\* A request, with the cookies that its route reads and the state in its query.
Sent == [step: {"sent"}, kind: Kind, cookie: Cookie \cup {NoCookie},
         held: State \cup {NoState}, query: State \cup {Foreign, NoState}]

\* An answer, with what it does to either cookie, and the query that it answers.
Answer == [step: {"answer"}, kind: Kind, cookie: Cookie \cup {NoCookie, Keep},
           held: State \cup {NoState, Keep}, query: State \cup {Foreign, NoState}]

-----------------------------------------------------------------------------
Init ==
    /\ session = [f \in Family |-> [status |-> "unborn", newest |-> 0]]
    /\ drawn = {}
    /\ jar = [refresh |-> NoCookie, state |-> NoState]
    /\ begun = {}
    /\ message = [m \in Request |-> Idle]
    /\ contested = {}
    /\ repeated = {}
    /\ passed = [once |-> {}, twice |-> {}]

Open == {f \in Family: session[f].status = "open"}

(* The browser *)

Send(m, kind, cookie, held, query) ==
    /\ message[m].step = "idle"
    /\ message' = [message EXCEPT
         ![m] = [step |-> "sent", kind |-> kind, cookie |-> cookie,
                 held |-> held, query |-> query]]
    /\ UNCHANGED <<server, jar, begun, passed>>

\* A form, a link from an e-mail, a passkey or a second factor; or the start of a flow.
SendPlain(m, kind) ==
    /\ kind \in {"login", "logout", "start"}
    /\ Send(m, kind, NoCookie, NoState, NoState)
    /\ UNCHANGED <<contested, repeated>>

CookieOf(f) == [family: {f}, n: Nat]
Refreshing(f) ==
    {m \in Request: message[m].kind = "refresh" /\ message[m].cookie \in CookieOf(f)}

\* Some tab refreshes, with the cookie of the moment.
SendRefresh(m) ==
    /\ jar.refresh # NoCookie
    /\ Send(m, "refresh", jar.refresh, NoState, NoState)
    /\ contested' = IF Refreshing(jar.refresh.family) # {}
                    THEN contested \cup {jar.refresh.family} ELSE contested
    /\ UNCHANGED repeated

\* The provider sends the browser back, or the user reloads the page, or follows a link
\* with the state of another browser.
SendCallback(m, s) ==
    /\ s \in begun \cup {Foreign}
    /\ Send(m, "callback", NoCookie, jar.state, s)
    /\ repeated' = repeated \cup
         {t \in State \cap {s}: \E q \in Request: message[q].kind = "callback"
                                                /\ message[q].query = s}
    /\ UNCHANGED contested

\* The Set-Cookie headers of an answer.
Stored(m) ==
    [refresh |-> IF message[m].cookie = Keep THEN jar.refresh ELSE message[m].cookie,
     state |-> IF message[m].held = Keep THEN jar.state ELSE message[m].held]

\* An answer arrives; that to a start sends the browser to the provider.
Receive(m) ==
    /\ message[m].step = "answer"
    /\ jar' = Stored(m)
    /\ begun' = IF message[m].kind = "start" THEN begun \cup {message[m].held} ELSE begun
    /\ message' = [message EXCEPT ![m] = Idle]
    /\ UNCHANGED <<server, history>>

\* A request or an answer is lost, or the server dies in between.  A rotation that fails
\* after it has revoked the old token is one whose answer is lost.
Lose(m) ==
    /\ message[m].step # "idle"
    /\ contested' = contested \cup
         {f \in Family: message[m].step = "answer" /\ m \in Refreshing(f)}
    /\ repeated' = repeated \cup
         ({message[m].query} \cap {s \in State: message[m].step = "answer"})
    /\ message' = [message EXCEPT ![m] = Idle]
    /\ UNCHANGED <<server, jar, begun, passed>>

\* maxAge is over.
ForgetRefresh ==
    /\ jar' = [jar EXCEPT !.refresh = NoCookie]
    /\ UNCHANGED <<server, begun, message, history>>

ForgetState ==
    /\ jar' = [jar EXCEPT !.state = NoState]
    /\ UNCHANGED <<server, begun, message, history>>

(* The server *)

Reply(m, cookie, held) ==
    message' = [message EXCEPT
      ![m] = [@ EXCEPT !.step = "answer", !.cookie = cookie, !.held = held]]

Received(m, kind) == message[m].step = "sent" /\ message[m].kind = kind

\* A new session, or none: the sign-in is refused, or a second factor is asked for, and
\* the cookie of any earlier session stays.
SignIn(m, held) ==
    \/ \E f \in Family:
         /\ session[f].status = "unborn"
         /\ session' = [session EXCEPT ![f].status = "open"]
         /\ Reply(m, [family |-> f, n |-> 0], held)
    \/ /\ Reply(m, Keep, held)
       /\ UNCHANGED session

\* register(), login(), and verify() of 2FA, magic links and passkeys
HandleLogin(m) ==
    /\ Received(m, "login")
    /\ SignIn(m, Keep)
    /\ UNCHANGED <<drawn, jar, begun, history>>

\* Faulty variant: the answer to a rotation does not set the cookie.
HandleRefreshCookieless(m) ==
    LET f == message[m].cookie.family
        n == message[m].cookie.n IN
    /\ Received(m, "refresh")
    /\ \/ /\ f \in Open /\ n = session[f].newest /\ n < MaxRotations
          /\ session' = [session EXCEPT ![f].newest = n + 1]
       \/ /\ f \in Open /\ n # session[f].newest
          /\ session' = [session EXCEPT ![f] = [status |-> "replayed", newest |-> 0]]
       \/ /\ f \notin Open
          /\ UNCHANGED session
    /\ Reply(m, Keep, Keep)
    /\ UNCHANGED <<drawn, jar, begun, history>>

\* refresh(): the newest token is rotated; an older one ends the session, and a 401
\* leaves the cookie where it is.
HandleRefresh(m) ==
    LET f == message[m].cookie.family
        n == message[m].cookie.n IN
    /\ Received(m, "refresh")
    /\ \/ /\ f \in Open /\ n = session[f].newest /\ n < MaxRotations
          /\ session' = [session EXCEPT ![f].newest = n + 1]
          /\ Reply(m, [family |-> f, n |-> n + 1], Keep)
       \/ /\ f \in Open /\ n # session[f].newest
          /\ session' = [session EXCEPT ![f] = [status |-> "replayed", newest |-> 0]]
          /\ Reply(m, Keep, Keep)
       \/ /\ f \notin Open
          /\ Reply(m, Keep, Keep)
          /\ UNCHANGED session
    /\ UNCHANGED <<drawn, jar, begun, history>>

Ended(F) == [f \in Family |-> IF f \in F THEN [status |-> "ended", newest |-> 0] ELSE session[f]]

\* logout(): the open sessions of the access token's user end, and the cookie goes,
\* whoever's it is.  A request without a valid token is answered 401.
HandleLogout(m) ==
    /\ Received(m, "logout")
    /\ \/ /\ \E F \in SUBSET Open: session' = Ended(F)
          /\ Reply(m, NoCookie, Keep)
       \/ /\ Reply(m, Keep, Keep)
          /\ UNCHANGED session
    /\ UNCHANGED <<drawn, jar, begun, history>>

\* The guard of the OAuth routes: a new state, in the cookie and for the provider.
HandleStart(m, s) ==
    /\ Received(m, "start")
    /\ s \notin drawn
    /\ drawn' = drawn \cup {s}
    /\ Reply(m, Keep, s)
    /\ UNCHANGED <<session, jar, begun, history>>

\* Faulty variant: both states are there, and are not compared.
StatesPresent(held, query) == held # NoState /\ query # NoState

\* The guard of the callback routes: both states are there and the same.
StatesMatch(held, query) == held # NoState /\ query # NoState /\ held = query

\* Faulty variant: the cookie is not cleared.
StateLeft == Keep

\* clearCookie(STATE_COOKIE), whatever the guard then says.
StateCleared == NoState

\* The callback, and the sign-in that follows when its guard lets it through.
HandleCallback(m) ==
    LET s == message[m].query IN
    /\ Received(m, "callback")
    /\ \/ /\ StatesMatch(message[m].held, s)
          /\ passed' = [once |-> passed.once \cup {s},
                        twice |-> passed.twice \cup ({s} \cap passed.once)]
          /\ SignIn(m, StateCleared)
       \/ /\ ~StatesMatch(message[m].held, s)
          /\ Reply(m, Keep, StateCleared)
          /\ UNCHANGED <<session, passed>>
    /\ UNCHANGED <<drawn, jar, begun, contested, repeated>>

\* Sessions end elsewhere: a device is signed out, or its user logs out on another one.
EndElsewhere(f) ==
    /\ f \in Open
    /\ session' = Ended({f})
    /\ UNCHANGED <<drawn, jar, begun, message, history>>

Handle(m) ==
    \/ HandleLogin(m)
    \/ HandleRefresh(m)
    \/ HandleLogout(m)
    \/ \E s \in State: HandleStart(m, s)
    \/ HandleCallback(m)

Next ==
    \/ \E m \in Request, kind \in Kind: SendPlain(m, kind)
    \/ \E m \in Request: SendRefresh(m)
    \/ \E m \in Request, s \in State \cup {Foreign}: SendCallback(m, s)
    \/ \E m \in Request: Handle(m)
    \/ \E m \in Request: Receive(m)
    \/ \E m \in Request: Lose(m)
    \/ ForgetRefresh
    \/ ForgetState
    \/ \E f \in Family: EndElsewhere(f)

Spec == Init /\ [][Next]_vars

-----------------------------------------------------------------------------
(* Properties *)

\* The sessions, the cookies and the messages are of their kinds.
TypeOK ==
    /\ session \in [Family -> [status: {"unborn", "open", "ended", "replayed"},
                               newest: 0 .. MaxRotations]]
    /\ drawn \in SUBSET State
    /\ jar \in [refresh: Cookie \cup {NoCookie}, state: State \cup {NoState}]
    /\ begun \in SUBSET State
    /\ message \in [Request -> Sent \cup Answer \cup {Idle}]
    /\ contested \in SUBSET Family
    /\ repeated \in SUBSET State
    /\ passed \in [once: SUBSET (State \cup {Foreign}), twice: SUBSET (State \cup {Foreign})]

\* Reuse detection never throws an honest browser out: a session that it has ended had two
\* refreshes on their way at once, or the answer to one was lost.  Other sign-ins, logouts
\* and answers out of order bring no older cookie back.
ReplayNeedsTrouble ==
    \A f \in Family: session[f].status = "replayed" => f \in contested

\* A callback passes only with a state that was drawn for this browser.
OwnFlowsOnly == passed.once \subseteq drawn

\* A state passes once, unless two callbacks with it were on their way at the same time
\* or the answer to one was lost: reloading the page signs nobody in again.
PassesOnce == passed.twice \subseteq repeated
=============================================================================
