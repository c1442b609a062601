--------------------------- MODULE AccountsProofs ---------------------------
(***************************************************************************)
(* Accounts for any number of addresses, identities and requests: a        *)
(* super_admin remains, links stay with the address they were made for,    *)
(* and nobody enters an account after its deactivation.                    *)
(***************************************************************************)
EXTENDS Accounts, TLAPS

\* What a handler at work has in hand.
RequestOK ==
    \A r \in Request :
        /\ request[r].step \in {"register", "challenge", "signup"} => request[r].address \in Email
        /\ request[r].step \in {"find", "link", "create"} =>
              /\ request[r].identity \in Identity
              /\ request[r].address \in Address
        /\ request[r].step = "credential" => request[r].address \in user

\* A demotion has counted another super_admin than the one it demotes.
AnotherCounted ==
    \A r \in Request :
        request[r].step = "demote" => request[r].seen \ {request[r].address} # {}

\* A login holds the address of its identity, unless the provider has changed it.
AddressKept ==
    \A r \in Request :
        /\ request[r].step \in {"find", "link", "create"}
        /\ request[r].identity \notin renamed
        => request[r].address = AddressOf(request[r].identity)

\* Deactivation is for good, and who is let in was active when the request began.
BarredOut ==
    \A r \in Request :
        /\ barred[r] \cap isActive = {}
        /\ request[r].step = "admit" => request[r].address \notin barred[r]

IInv ==
    /\ TypeOK
    /\ RequestOK
    /\ SuperAdminsRemain
    /\ AnotherCounted
    /\ LinkIsOwn
    /\ AddressKept
    /\ DeactivationSticks
    /\ BarredOut

-----------------------------------------------------------------------------
LEMMA IdleState == Idle \in RequestState /\ Idle.step = "idle"
BY DEF Idle, RequestState

LEMMA InitStep == Init => IInv
<1> SUFFICES ASSUME Init PROVE IInv
  OBVIOUS
<1>1. TypeOK
  BY SeedAssumption, IdleState DEF Init, TypeOK, Address
<1>2. \A r \in Request : request[r].step = "idle"
  BY IdleState DEF Init
<1> QED
  BY <1>1, <1>2 DEF IInv, Init, RequestOK, SuperAdminsRemain, AnotherCounted, LinkIsOwn,
                    AddressKept, DeactivationSticks, BarredOut

-----------------------------------------------------------------------------
(* The ways a handler moves on: each leaves the other requests alone. *)

LEMMA FinishRequest ==
    ASSUME TypeOK, NEW r \in Request, Finish(r)
    PROVE  /\ request' \in [Request -> RequestState]
           /\ request'[r].step = "idle"
           /\ \A q \in Request : q # r => request'[q] = request[q]
           /\ barred' \in [Request -> SUBSET user]
           /\ \A q \in Request : barred'[q] = barred[q] \/ barred'[q] = {}
BY IdleState DEF Finish, TypeOK

LEMMA GotoRequest ==
    ASSUME TypeOK, NEW r \in Request,
           NEW step \in {"link", "create", "credential", "forget", "issue", "admit"},
           Goto(r, step)
    PROVE  /\ request' \in [Request -> RequestState]
           /\ request'[r].step = step
           /\ request'[r].address = request[r].address
           /\ request'[r].identity = request[r].identity
           /\ \A q \in Request : q # r => request'[q] = request[q]
           /\ barred' = barred
BY DEF Goto, TypeOK, RequestState

LEMMA EnterRequest ==
    ASSUME TypeOK, NEW r \in Request, NEW a \in Address, Enter(r, a)
    PROVE  /\ request' \in [Request -> RequestState]
           /\ \/ /\ request'[r].step = "admit"
                 /\ request'[r].address = a
                 /\ a \in isActive
              \/ request'[r].step = "idle"
           /\ \A q \in Request : q # r => request'[q] = request[q]
           /\ barred' \in [Request -> SUBSET user]
           /\ \A q \in Request : barred'[q] = barred[q] \/ barred'[q] = {}
<1>1. CASE a \in isActive
  BY <1>1 DEF Enter, TypeOK, RequestState
<1>2. CASE a \notin isActive
  BY <1>2, FinishRequest DEF Enter
<1> QED
  BY <1>1, <1>2

LEMMA BeginRequest ==
    ASSUME TypeOK, NEW r \in Request, NEW i \in Identity \cup {NoIdentity}, NEW a \in Address,
           NEW step \in {"register", "challenge", "signup", "find"},
           Begin(r, step, i, a)
    PROVE  /\ request' \in [Request -> RequestState]
           /\ request'[r].step = step
           /\ request'[r].identity = i
           /\ request'[r].address = a
           /\ \A q \in Request : q # r => request'[q] = request[q]
           /\ barred' \in [Request -> SUBSET user]
           /\ barred'[r] = user \ isActive
           /\ \A q \in Request : q # r => barred'[q] = barred[q]
<1> DEFINE new == [Idle EXCEPT !.step = step, !.identity = i, !.address = a]
<1>1. new \in RequestState /\ new.step = step /\ new.identity = i /\ new.address = a
  BY DEF Idle, RequestState
<1> HIDE DEF new
<1>2. request' = [request EXCEPT ![r] = new] /\ barred' = [barred EXCEPT ![r] = user \ isActive]
  BY DEF Begin, new
<1> QED
  BY <1>1, <1>2 DEF TypeOK

-----------------------------------------------------------------------------
(* Registration and signup *)

LEMMA BeginRegisterStep ==
    ASSUME IInv, NEW r \in Request, NEW e \in Email, BeginRegister(r, e)
    PROVE  IInv'
<1>0. TypeOK /\ e \in Address
  BY DEF IInv, Address
<1>1. /\ request' \in [Request -> RequestState]
      /\ request'[r].step = "register"
      /\ request'[r].identity = NoIdentity
      /\ request'[r].address = e
      /\ \A q \in Request : q # r => request'[q] = request[q]
      /\ barred' \in [Request -> SUBSET user]
      /\ barred'[r] = user \ isActive
      /\ \A q \in Request : q # r => barred'[q] = barred[q]
  <2>1. Begin(r, "register", NoIdentity, e)
    BY DEF BeginRegister
  <2> QED
    BY <1>0, <2>1, BeginRequest
<1>2. UNCHANGED <<rows, outside, others>>
  BY DEF BeginRegister
<1> QED
  BY <1>0, <1>1, <1>2
  DEF IInv, TypeOK, RequestOK, SuperAdminsRemain, AnotherCounted, LinkIsOwn,
      AddressKept, AddressOf, DeactivationSticks, BarredOut, rows, outside, others

LEMMA BeginSignupStep ==
    ASSUME IInv, NEW r \in Request, NEW e \in Email, BeginSignup(r, e)
    PROVE  IInv'
<1>0. TypeOK /\ e \in Address
  BY DEF IInv, Address
<1>1. /\ request' \in [Request -> RequestState]
      /\ request'[r].step = "challenge"
      /\ request'[r].identity = NoIdentity
      /\ request'[r].address = e
      /\ \A q \in Request : q # r => request'[q] = request[q]
      /\ barred' \in [Request -> SUBSET user]
      /\ barred'[r] = user \ isActive
      /\ \A q \in Request : q # r => barred'[q] = barred[q]
  <2>1. Begin(r, "challenge", NoIdentity, e)
    BY DEF BeginSignup
  <2> QED
    BY <1>0, <2>1, BeginRequest
<1>2. UNCHANGED <<rows, outside, others>>
  BY DEF BeginSignup
<1> QED
  BY <1>0, <1>1, <1>2
  DEF IInv, TypeOK, RequestOK, SuperAdminsRemain, AnotherCounted, LinkIsOwn,
      AddressKept, AddressOf, DeactivationSticks, BarredOut, rows, outside, others

LEMMA BeginVerifyStep ==
    ASSUME IInv, NEW r \in Request, NEW e \in Email, BeginVerify(r, e)
    PROVE  IInv'
<1>0. TypeOK /\ e \in Address
  BY DEF IInv, Address
<1>1. /\ request' \in [Request -> RequestState]
      /\ request'[r].step = "signup"
      /\ request'[r].identity = NoIdentity
      /\ request'[r].address = e
      /\ \A q \in Request : q # r => request'[q] = request[q]
      /\ barred' \in [Request -> SUBSET user]
      /\ barred'[r] = user \ isActive
      /\ \A q \in Request : q # r => barred'[q] = barred[q]
  <2>1. Begin(r, "signup", NoIdentity, e)
    BY DEF BeginVerify
  <2> QED
    BY <1>0, <2>1, BeginRequest
<1>2. UNCHANGED <<rows, outside, others>>
  BY DEF BeginVerify
<1> QED
  BY <1>0, <1>1, <1>2
  DEF IInv, TypeOK, RequestOK, SuperAdminsRemain, AnotherCounted, LinkIsOwn,
      AddressKept, AddressOf, DeactivationSticks, BarredOut, rows, outside, others

LEMMA RegisterStep ==
    ASSUME IInv, NEW r \in Request, Register(r)
    PROVE  IInv'
<1>0. TypeOK /\ request[r].address \in Address
  BY DEF IInv, Register, RequestOK, Address
<1>1. CASE request[r].address \in user
  BY <1>0, <1>1, FinishRequest
  DEF Register, IInv, TypeOK, RequestOK, SuperAdminsRemain, AnotherCounted, LinkIsOwn,
      AddressKept, AddressOf, DeactivationSticks, BarredOut, rows, outside, others
<1>2. CASE request[r].address \notin user
  BY <1>0, <1>2, GotoRequest
  DEF Register, IInv, TypeOK, RequestOK, SuperAdminsRemain, AnotherCounted, LinkIsOwn,
      AddressKept, AddressOf, DeactivationSticks, BarredOut, rows, outside, others
<1> QED
  BY <1>1, <1>2

LEMMA SetChallengeStep ==
    ASSUME IInv, NEW r \in Request, SetChallenge(r)
    PROVE  IInv'
BY FinishRequest
  DEF SetChallenge, IInv, TypeOK, RequestOK, SuperAdminsRemain, AnotherCounted, LinkIsOwn,
      AddressKept, AddressOf, DeactivationSticks, BarredOut, rows, outside, others, history

LEMMA SignUpStep ==
    ASSUME IInv, NEW r \in Request, SignUp(r)
    PROVE  IInv'
<1>0. TypeOK /\ request[r].address \in Address
  BY DEF IInv, SignUp, RequestOK, Address
<1>1. CASE request[r].address \in user
  BY <1>0, <1>1, FinishRequest
  DEF SignUp, IInv, TypeOK, RequestOK, SuperAdminsRemain, AnotherCounted, LinkIsOwn,
      AddressKept, AddressOf, DeactivationSticks, BarredOut, rows, outside, others
<1>2. CASE request[r].address \notin user
  BY <1>0, <1>2, GotoRequest
  DEF SignUp, IInv, TypeOK, RequestOK, SuperAdminsRemain, AnotherCounted, LinkIsOwn,
      AddressKept, AddressOf, DeactivationSticks, BarredOut, rows, outside, others
<1> QED
  BY <1>1, <1>2

LEMMA CreateCredentialStep ==
    ASSUME IInv, NEW r \in Request, CreateCredential(r)
    PROVE  IInv'
BY GotoRequest
  DEF CreateCredential, IInv, TypeOK, RequestOK, SuperAdminsRemain, AnotherCounted, LinkIsOwn,
      AddressKept, AddressOf, DeactivationSticks, BarredOut, rows, outside, others

LEMMA ForgetChallengeStep ==
    ASSUME IInv, NEW r \in Request, ForgetChallenge(r)
    PROVE  IInv'
BY GotoRequest
  DEF ForgetChallenge, IInv, TypeOK, RequestOK, SuperAdminsRemain, AnotherCounted, LinkIsOwn,
      AddressKept, AddressOf, DeactivationSticks, BarredOut, rows, outside, others

LEMMA IssueTokensStep ==
    ASSUME IInv, NEW r \in Request, IssueTokens(r)
    PROVE  IInv'
<1>0. TypeOK
  BY DEF IInv
<1>1. CASE request[r].address \in Address
  BY <1>0, <1>1, EnterRequest
  DEF IssueTokens, IInv, TypeOK, RequestOK, SuperAdminsRemain, AnotherCounted, LinkIsOwn,
      AddressKept, AddressOf, DeactivationSticks, BarredOut, rows, outside, others
<1>2. CASE request[r].address \notin Address
  <2>1. Finish(r)
    BY <1>0, <1>2 DEF IssueTokens, Enter, TypeOK
  <2> QED
    BY <1>0, <2>1, FinishRequest
  DEF IssueTokens, IInv, TypeOK, RequestOK, SuperAdminsRemain, AnotherCounted, LinkIsOwn,
      AddressKept, AddressOf, DeactivationSticks, BarredOut, rows, outside, others
<1> QED
  BY <1>1, <1>2

LEMMA ExpireChallengeStep ==
    ASSUME IInv, NEW e \in Email, ExpireChallenge(e)
    PROVE  IInv'
BY DEF ExpireChallenge, IInv, TypeOK, RequestOK, SuperAdminsRemain, AnotherCounted, LinkIsOwn,
      AddressKept, AddressOf, DeactivationSticks, BarredOut, rows, outside, others, history

LEMMA DeleteCredentialStep ==
    ASSUME IInv, NEW a \in Address, DeleteCredential(a)
    PROVE  IInv'
BY DEF DeleteCredential, IInv, TypeOK, RequestOK, SuperAdminsRemain, AnotherCounted, LinkIsOwn,
      AddressKept, AddressOf, DeactivationSticks, BarredOut, rows, outside, others, history

-----------------------------------------------------------------------------
(* OAuth *)

LEMMA BeginOAuthStep ==
    ASSUME IInv, NEW r \in Request, NEW i \in Identity, BeginOAuth(r, i)
    PROVE  IInv'
<1>0. TypeOK /\ AddressOf(i) \in Address
  BY DEF IInv, TypeOK, AddressOf, Address
<1>1. /\ request' \in [Request -> RequestState]
      /\ request'[r].step = "find"
      /\ request'[r].identity = i
      /\ request'[r].address = AddressOf(i)
      /\ \A q \in Request : q # r => request'[q] = request[q]
      /\ barred' \in [Request -> SUBSET user]
      /\ barred'[r] = user \ isActive
      /\ \A q \in Request : q # r => barred'[q] = barred[q]
  <2>1. Begin(r, "find", i, AddressOf(i))
    BY DEF BeginOAuth
  <2> QED
    BY <1>0, <2>1, BeginRequest
<1>2. UNCHANGED <<rows, outside, others>>
  BY DEF BeginOAuth
<1> QED
  BY <1>0, <1>1, <1>2
  DEF IInv, TypeOK, RequestOK, SuperAdminsRemain, AnotherCounted, LinkIsOwn,
      AddressKept, AddressOf, DeactivationSticks, BarredOut, rows, outside, others

LEMMA FindLinkStep ==
    ASSUME IInv, NEW r \in Request, FindLink(r)
    PROVE  IInv'
<1> DEFINE i == request[r].identity
<1>0. TypeOK /\ i \in Identity
  BY DEF IInv, FindLink, RequestOK
<1>1. CASE link[i] # NoUser
  <2>1. link[i] \in Address /\ Enter(r, link[i])
    BY <1>0, <1>1 DEF FindLink, TypeOK
  <2> QED
    BY <1>0, <1>1, <2>1, EnterRequest
  DEF FindLink, IInv, TypeOK, RequestOK, SuperAdminsRemain, AnotherCounted, LinkIsOwn,
      AddressKept, AddressOf, DeactivationSticks, BarredOut, rows, outside, others
<1>2. CASE link[i] = NoUser
  BY <1>0, <1>2, GotoRequest
  DEF FindLink, IInv, TypeOK, RequestOK, SuperAdminsRemain, AnotherCounted, LinkIsOwn,
      AddressKept, AddressOf, DeactivationSticks, BarredOut, rows, outside, others
<1> QED
  BY <1>1, <1>2

LEMMA LinkByEmailStep ==
    ASSUME IInv, NEW r \in Request, LinkByEmail(r)
    PROVE  IInv'
<1> DEFINE i == request[r].identity
           a == request[r].address
<1>0. TypeOK /\ i \in Identity /\ a \in Address
  BY DEF IInv, LinkByEmail, RequestOK
<1>1. CASE a \notin user
  BY <1>0, <1>1, GotoRequest
  DEF LinkByEmail, IInv, TypeOK, RequestOK, SuperAdminsRemain, AnotherCounted, LinkIsOwn,
      AddressKept, AddressOf, DeactivationSticks, BarredOut, rows, outside, others
<1>2. CASE a \in user
  BY <1>0, <1>2, EnterRequest
  DEF LinkByEmail, IInv, TypeOK, RequestOK, SuperAdminsRemain, AnotherCounted, LinkIsOwn,
      AddressKept, AddressOf, DeactivationSticks, BarredOut, rows, outside, others
<1> QED
  BY <1>1, <1>2

LEMMA CreateLinkedStep ==
    ASSUME IInv, NEW r \in Request, CreateLinked(r)
    PROVE  IInv'
<1> DEFINE i == request[r].identity
           a == request[r].address
<1>0. TypeOK /\ i \in Identity /\ a \in Address
  BY DEF IInv, CreateLinked, RequestOK
<1>1. CASE a \in user \/ link[i] # NoUser
  BY <1>0, <1>1, FinishRequest
  DEF CreateLinked, IInv, TypeOK, RequestOK, SuperAdminsRemain, AnotherCounted, LinkIsOwn,
      AddressKept, AddressOf, DeactivationSticks, BarredOut, rows, outside, others
<1>2. CASE a \notin user /\ link[i] = NoUser
  BY <1>0, <1>2, GotoRequest
  DEF CreateLinked, IInv, TypeOK, RequestOK, SuperAdminsRemain, AnotherCounted, LinkIsOwn,
      AddressKept, AddressOf, DeactivationSticks, BarredOut, rows, outside, others
<1> QED
  BY <1>1, <1>2

LEMMA ChangeProfileStep ==
    ASSUME IInv, NEW i \in Identity, NEW e \in Email \cup {NoEmail}, ChangeProfile(i, e)
    PROVE  IInv'
BY DEF ChangeProfile, IInv, TypeOK, RequestOK, SuperAdminsRemain, AnotherCounted, LinkIsOwn,
      AddressKept, AddressOf, DeactivationSticks, BarredOut, rows, outside, others

LEMMA AdmitStep ==
    ASSUME IInv, NEW r \in Request, Admit(r)
    PROVE  IInv'
BY FinishRequest
  DEF Admit, IInv, TypeOK, RequestOK, SuperAdminsRemain, AnotherCounted, LinkIsOwn,
      AddressKept, AddressOf, DeactivationSticks, BarredOut, rows, outside, others

-----------------------------------------------------------------------------
(* Administration *)

LEMMA GrantStep ==
    ASSUME IInv, NEW a \in Address, GrantSuperAdmin(a)
    PROVE  IInv'
BY DEF GrantSuperAdmin, IInv, TypeOK, RequestOK, SuperAdminsRemain, AnotherCounted, LinkIsOwn,
      AddressKept, AddressOf, DeactivationSticks, BarredOut, rows, outside, others, history

LEMMA BeginDemotionStep ==
    ASSUME IInv, NEW r \in Request, NEW a \in Address, BeginDemotion(r, a)
    PROVE  IInv'
<1> DEFINE new == [Idle EXCEPT !.step = "demote", !.address = a, !.seen = superAdmin]
<1>0. TypeOK
  BY DEF IInv
<1>1. /\ new \in RequestState
      /\ new.step = "demote"
      /\ new.seen \ {new.address} # {}
  BY <1>0 DEF BeginDemotion, Idle, RequestState, TypeOK
<1> HIDE DEF new
<1>2. request' = [request EXCEPT ![r] = new]
  BY DEF BeginDemotion, new
<1> QED
  BY <1>0, <1>1, <1>2
  DEF BeginDemotion, IInv, TypeOK, RequestOK, SuperAdminsRemain, AnotherCounted, LinkIsOwn,
      AddressKept, AddressOf, DeactivationSticks, BarredOut, rows, outside, others, history

LEMMA CommitDemotionStep ==
    ASSUME IInv, NEW r \in Request, CommitDemotion(r)
    PROVE  IInv'
BY FinishRequest
  DEF CommitDemotion, IInv, TypeOK, RequestOK, SuperAdminsRemain, AnotherCounted, LinkIsOwn,
      AddressKept, AddressOf, DeactivationSticks, BarredOut, rows, outside, others

LEMMA DeactivateStep ==
    ASSUME IInv, NEW a \in Address, Deactivate(a)
    PROVE  IInv'
BY DEF Deactivate, IInv, TypeOK, RequestOK, SuperAdminsRemain, AnotherCounted, LinkIsOwn,
      AddressKept, AddressOf, DeactivationSticks, BarredOut, rows, outside, others, history

LEMMA PurgeLinksStep ==
    ASSUME IInv, PurgeLinks
    PROVE  IInv'
BY DEF PurgeLinks, IInv, TypeOK, RequestOK, SuperAdminsRemain, AnotherCounted, LinkIsOwn,
      AddressKept, AddressOf, DeactivationSticks, BarredOut, rows, outside, others, history

LEMMA FailStep ==
    ASSUME IInv, NEW r \in Request, Fail(r)
    PROVE  IInv'
BY FinishRequest
  DEF Fail, IInv, TypeOK, RequestOK, SuperAdminsRemain, AnotherCounted, LinkIsOwn,
      AddressKept, AddressOf, DeactivationSticks, BarredOut, rows, outside, others

-----------------------------------------------------------------------------
LEMMA NextStep ==
    ASSUME IInv, [Next]_vars
    PROVE  IInv'
<1>1. CASE UNCHANGED vars
  BY <1>1 DEF vars, history, IInv, TypeOK, RequestOK, SuperAdminsRemain, AnotherCounted,
              LinkIsOwn, AddressKept, AddressOf, DeactivationSticks, BarredOut, rows,
              outside, others
<1>2. ASSUME NEW r \in Request, Handle(r)
      PROVE  IInv'
  BY <1>2, RegisterStep, SetChallengeStep, SignUpStep, CreateCredentialStep, ForgetChallengeStep,
     IssueTokensStep, FindLinkStep, LinkByEmailStep, CreateLinkedStep, AdmitStep,
     CommitDemotionStep, FailStep
  DEF Handle
<1>3. ASSUME NEW r \in Request, NEW e \in Email,
             BeginRegister(r, e) \/ BeginSignup(r, e) \/ BeginVerify(r, e)
      PROVE  IInv'
  BY <1>3, BeginRegisterStep, BeginSignupStep, BeginVerifyStep
<1>4. ASSUME NEW r \in Request, NEW i \in Identity, BeginOAuth(r, i)
      PROVE  IInv'
  BY <1>4, BeginOAuthStep
<1>5. ASSUME NEW r \in Request, NEW a \in Address, BeginDemotion(r, a)
      PROVE  IInv'
  BY <1>5, BeginDemotionStep
<1>6. ASSUME NEW a \in Address, GrantSuperAdmin(a) \/ Deactivate(a) \/ DeleteCredential(a)
      PROVE  IInv'
  BY <1>6, GrantStep, DeactivateStep, DeleteCredentialStep
<1>7. ASSUME NEW e \in Email, ExpireChallenge(e)
      PROVE  IInv'
  BY <1>7, ExpireChallengeStep
<1>8. ASSUME NEW i \in Identity, NEW e \in Email \cup {NoEmail}, ChangeProfile(i, e)
      PROVE  IInv'
  BY <1>8, ChangeProfileStep
<1> QED
  BY <1>1, <1>2, <1>3, <1>4, <1>5, <1>6, <1>7, <1>8, PurgeLinksStep DEF Next

-----------------------------------------------------------------------------
(* Links do not move. *)

Looking(r) == request[r].step \in {"link", "create"}

\* A link made while a request looks for it, and two requests that look for the same
\* link, have been noted.
MissesNoted ==
    \A r \in Request : Looking(r) =>
        /\ link[request[r].identity] # NoUser => request[r].identity \in raced
        /\ \A q \in Request \ {r} :
              Looking(q) /\ request[q].identity = request[r].identity
              => request[r].identity \in raced

\* A step that makes no link and sends no request to look for one keeps it so.
LEMMA MissesKept ==
    ASSUME IInv, MissesNoted, raced' = raced,
           \A i \in Identity : link'[i] \in {link[i], NoUser},
           \A r \in Request : \/ /\ request'[r].identity = request[r].identity
                                 /\ Looking(r)
                              \/ ~Looking(r)'
    PROVE  MissesNoted'
<1>1. \A r \in Request : Looking(r)' => Looking(r) /\ request'[r].identity = request[r].identity
  OBVIOUS
<1>2. \A r \in Request : Looking(r) => request[r].identity \in Identity
  BY DEF IInv, RequestOK, Looking
<1> QED
  BY <1>1, <1>2 DEF MissesNoted

LEMMA HandleMisses ==
    ASSUME IInv, MissesNoted, NEW r \in Request, Handle(r)
    PROVE  MissesNoted'
<1>0. TypeOK
  BY DEF IInv
<1>1. ASSUME Finish(r), UNCHANGED <<link, raced>>
      PROVE  MissesNoted'
  <2>1. \A q \in Request : request'[q] = request[q] \/ ~Looking(q)'
    BY <1>0, <1>1, FinishRequest DEF Looking
  <2> QED
    BY <1>1, <2>1, MissesKept DEF Looking
<1>2. ASSUME NEW step \in {"credential", "forget", "issue", "admit"},
             Goto(r, step), UNCHANGED <<link, raced>>
      PROVE  MissesNoted'
  <2>1. \A q \in Request : request'[q] = request[q] \/ ~Looking(q)'
    BY <1>0, <1>2, GotoRequest DEF Looking
  <2> QED
    BY <1>2, <2>1, MissesKept DEF Looking
<1>3. CASE Register(r) \/ SetChallenge(r) \/ SignUp(r) \/ CreateCredential(r)
             \/ ForgetChallenge(r) \/ Admit(r) \/ CommitDemotion(r) \/ Fail(r)
  BY <1>1, <1>2, <1>3
  DEF Register, SetChallenge, SignUp, CreateCredential, ForgetChallenge, Admit, CommitDemotion,
      Fail, rows, others, history
<1>4. CASE IssueTokens(r)
  <2>1. UNCHANGED <<link, raced>> /\ Enter(r, request[r].address)
    BY <1>4 DEF IssueTokens, rows, others
  <2>2. CASE request[r].address \in isActive
    <3>1. request[r].address \in Address
      BY <1>0, <2>2 DEF TypeOK
    <3>2. \A q \in Request : request'[q] = request[q] \/ ~Looking(q)'
      BY <1>0, <2>1, <3>1, EnterRequest DEF Looking
    <3> QED
      BY <2>1, <3>2, MissesKept DEF Looking
  <2>3. CASE request[r].address \notin isActive
    BY <1>1, <2>1, <2>3 DEF Enter
  <2> QED
    BY <2>2, <2>3
<1>5. CASE FindLink(r)
  <2> DEFINE i == request[r].identity
  <2>0. i \in Identity
    BY <1>5 DEF IInv, FindLink, RequestOK
  <2>1. CASE link[i] # NoUser
    <3>1. link[i] \in Address /\ Enter(r, link[i])
      BY <1>0, <1>5, <2>0, <2>1 DEF FindLink, TypeOK
    <3>2. \A q \in Request : request'[q] = request[q] \/ ~Looking(q)'
      BY <1>0, <3>1, EnterRequest DEF Looking
    <3> QED
      BY <1>5, <2>1, <3>2, MissesKept DEF FindLink, Looking, rows
  <2>2. CASE link[i] = NoUser
    <3>1. /\ request'[r].identity = i
          /\ \A q \in Request \ {r} : request'[q] = request[q]
          /\ link' = link
          /\ raced' = IF \E q \in Request : /\ request[q].identity = i
                                            /\ request[q].step \in {"link", "create"}
                        THEN raced \cup {i} ELSE raced
      BY <1>0, <1>5, <2>2, GotoRequest DEF FindLink, rows
    <3> QED
      BY <2>0, <2>2, <3>1 DEF MissesNoted, Looking
  <2> QED
    BY <2>1, <2>2
<1>6. CASE LinkByEmail(r)
  <2> DEFINE i == request[r].identity
             a == request[r].address
  <2>0. i \in Identity /\ a \in Address /\ Looking(r)
    BY <1>6 DEF IInv, LinkByEmail, RequestOK, Looking
  <2>1. CASE a \notin user
    <3>1. /\ link' = link
          /\ raced' = raced
          /\ request'[r].identity = i
          /\ \A q \in Request \ {r} : request'[q] = request[q]
      BY <1>0, <1>6, <2>1, GotoRequest DEF LinkByEmail
    <3> QED
      BY <2>0, <3>1 DEF MissesNoted, Looking
  <2>2. CASE a \in user
    <3>1. /\ \A j \in Identity \ {i} : link'[j] = link[j]
          /\ raced' = raced
          /\ ~Looking(r)'
          /\ \A q \in Request \ {r} : request'[q] = request[q]
      BY <1>0, <1>6, <2>0, <2>2, EnterRequest DEF LinkByEmail, TypeOK, Looking
    <3>2. \A q \in Request : Looking(q) => request[q].identity \in Identity
      BY DEF IInv, RequestOK, Looking
    <3> QED
      BY <2>0, <3>1, <3>2 DEF MissesNoted, Looking
  <2> QED
    BY <2>1, <2>2
<1>7. CASE CreateLinked(r)
  <2> DEFINE i == request[r].identity
             a == request[r].address
  <2>0. i \in Identity /\ a \in Address /\ Looking(r)
    BY <1>7 DEF IInv, CreateLinked, RequestOK, Looking
  <2>1. CASE Finish(r) /\ link' = link
    BY <1>1, <1>7, <2>1 DEF CreateLinked, others
  <2>2. CASE Goto(r, "admit") /\ link' = [link EXCEPT ![i] = a]
    <3>1. /\ \A j \in Identity \ {i} : link'[j] = link[j]
          /\ raced' = raced
          /\ ~Looking(r)'
          /\ \A q \in Request \ {r} : request'[q] = request[q]
      BY <1>0, <1>7, <2>0, <2>2, GotoRequest DEF CreateLinked, TypeOK, Looking, others
    <3>2. \A q \in Request : Looking(q) => request[q].identity \in Identity
      BY DEF IInv, RequestOK, Looking
    <3> QED
      BY <2>0, <3>1, <3>2 DEF MissesNoted, Looking
  <2> QED
    BY <1>7, <2>1, <2>2 DEF CreateLinked, rows
<1> QED
  BY <1>3, <1>4, <1>5, <1>6, <1>7 DEF Handle

LEMMA NextMisses ==
    ASSUME IInv, MissesNoted, [Next]_vars
    PROVE  MissesNoted'
<1>0. TypeOK
  BY DEF IInv
<1>1. ASSUME UNCHANGED request, raced' = raced, \A i \in Identity : link'[i] \in {link[i], NoUser}
      PROVE  MissesNoted'
  BY <1>1, MissesKept DEF Looking
<1>2. ASSUME NEW r \in Request, NEW i \in Identity \cup {NoIdentity}, NEW a \in Address,
             NEW step \in {"register", "challenge", "signup", "find"},
             Begin(r, step, i, a), UNCHANGED <<link, raced>>
      PROVE  MissesNoted'
  <2>1. \A q \in Request : request'[q] = request[q] \/ ~Looking(q)'
    BY <1>0, <1>2, BeginRequest DEF Looking
  <2> QED
    BY <1>2, <2>1, MissesKept DEF Looking
<1>3. ASSUME NEW r \in Request, NEW e \in Email,
             BeginRegister(r, e) \/ BeginSignup(r, e) \/ BeginVerify(r, e)
      PROVE  MissesNoted'
  <2>1. e \in Address /\ UNCHANGED <<link, raced>>
    BY <1>3 DEF BeginRegister, BeginSignup, BeginVerify, Address, rows, others
  <2> QED
    BY <1>2, <1>3, <2>1 DEF BeginRegister, BeginSignup, BeginVerify
<1>4. ASSUME NEW r \in Request, NEW i \in Identity, BeginOAuth(r, i)
      PROVE  MissesNoted'
  <2>1. AddressOf(i) \in Address /\ UNCHANGED <<link, raced>>
    BY <1>0, <1>4 DEF BeginOAuth, AddressOf, Address, TypeOK, rows, others
  <2> QED
    BY <1>2, <1>4, <2>1 DEF BeginOAuth
<1>5. ASSUME NEW r \in Request, NEW a \in Address, BeginDemotion(r, a)
      PROVE  MissesNoted'
  <2>1. /\ UNCHANGED <<link, raced>>
        /\ \A q \in Request : request'[q] = request[q] \/ ~Looking(q)'
    BY <1>0, <1>5 DEF BeginDemotion, Idle, Looking, TypeOK, rows, others, history
  <2> QED
    BY <2>1, MissesKept DEF Looking
<1>6. ASSUME NEW a \in Address, GrantSuperAdmin(a) \/ Deactivate(a) \/ DeleteCredential(a)
      PROVE  MissesNoted'
  BY <1>1, <1>6 DEF GrantSuperAdmin, Deactivate, DeleteCredential, history, others
<1>7. ASSUME NEW e \in Email, ExpireChallenge(e)
      PROVE  MissesNoted'
  BY <1>1, <1>7 DEF ExpireChallenge, rows, history, others
<1>8. ASSUME NEW i \in Identity, NEW e \in Email \cup {NoEmail}, ChangeProfile(i, e)
      PROVE  MissesNoted'
  BY <1>1, <1>8 DEF ChangeProfile, rows
<1>9. CASE PurgeLinks
  BY <1>1, <1>9 DEF PurgeLinks, history, others
<1>10. CASE UNCHANGED vars
  BY <1>1, <1>10 DEF vars, rows, history, others
<1> QED
  BY <1>3, <1>4, <1>5, <1>6, <1>7, <1>8, <1>9, <1>10, HandleMisses DEF Next

\* A link is moved by LinkByEmail alone, whose request has then missed it.
LEMMA OnlyRacedMove ==
    ASSUME IInv, MissesNoted, [Next]_vars, NEW i \in Identity,
           link[i] # NoUser, link'[i] \notin {NoUser, link[i]}
    PROVE  i \in renamed \cap raced
<1>0. TypeOK
  BY DEF IInv
<1>1. PICK r \in Request : LinkByEmail(r) \/ CreateLinked(r)
  BY DEF Next, Handle, vars, Register, SetChallenge, SignUp, CreateCredential, ForgetChallenge,
         IssueTokens, FindLink, Admit, CommitDemotion, Fail, BeginRegister, BeginSignup,
         BeginVerify, BeginOAuth, BeginDemotion, GrantSuperAdmin, Deactivate,
         DeleteCredential, ExpireChallenge, ChangeProfile, PurgeLinks, rows
<1>2. /\ Looking(r)
      /\ request[r].identity = i
      /\ link'[i] = request[r].address
  BY <1>0, <1>1 DEF LinkByEmail, CreateLinked, TypeOK, Looking, rows
<1>3. i \in raced
  BY <1>2 DEF MissesNoted
<1>4. i \in renamed
  BY <1>0, <1>2 DEF IInv, TypeOK, LinkIsOwn, AddressKept, Looking
<1> QED
  BY <1>3, <1>4

-----------------------------------------------------------------------------
(* An active account has a way in. *)

\* A step that takes no credential away, and no link from an active account.
LEMMA WayInKept ==
    ASSUME WayIn, isActive' \subseteq isActive,
           hasPassword \subseteq hasPassword', passkey \subseteq passkey',
           halfway \subseteq halfway', left \subseteq left',
           \A i \in Identity : link[i] \in isActive' => link'[i] = link[i]
    PROVE  WayIn'
<1> SUFFICES ASSUME NEW a \in isActive' \ (halfway' \cup left')
             PROVE  a \in hasPassword' \cup passkey' \/ \E i \in Identity : link'[i] = a
  BY DEF WayIn
<1>1. a \in hasPassword \cup passkey \/ \E i \in Identity : link[i] = a
  BY DEF WayIn
<1> QED
  BY <1>1

LEMMA HandleWayIn ==
    ASSUME IInv, WayIn, NEW r \in Request, Handle(r)
    PROVE  WayIn'
<1>0. TypeOK
  BY DEF IInv
<1>1. ASSUME UNCHANGED <<rows, halfway, left>>
      PROVE  WayIn'
  BY <1>1, WayInKept DEF rows
<1>2. CASE SetChallenge(r) \/ ForgetChallenge(r) \/ IssueTokens(r) \/ FindLink(r) \/ Admit(r)
             \/ Fail(r)
  BY <1>1, <1>2 DEF SetChallenge, ForgetChallenge, IssueTokens, FindLink, Admit, Fail, others
<1>3. CASE Register(r)
  <2>1. CASE UNCHANGED rows
    BY <1>1, <1>3, <2>1 DEF Register, others
  <2>2. CASE /\ isActive' = isActive \cup {request[r].address}
             /\ hasPassword' = hasPassword \cup {request[r].address}
             /\ UNCHANGED <<superAdmin, passkey, link>>
    BY <1>3, <2>2 DEF Register, WayIn, others
  <2> QED
    BY <1>3, <2>1, <2>2 DEF Register
<1>4. CASE SignUp(r)
  <2>1. CASE UNCHANGED <<rows, halfway>>
    BY <1>1, <1>4, <2>1 DEF SignUp
  <2>2. CASE /\ isActive' = isActive \cup {request[r].address}
             /\ halfway' = halfway \cup {request[r].address}
             /\ UNCHANGED <<superAdmin, hasPassword, passkey, link>>
    BY <1>4, <2>2 DEF SignUp, WayIn
  <2> QED
    BY <1>4, <2>1, <2>2 DEF SignUp
<1>5. CASE CreateCredential(r)
  BY <1>5 DEF CreateCredential, WayIn
<1>6. CASE LinkByEmail(r)
  <2> DEFINE i == request[r].identity
             a == request[r].address
  <2>1. CASE UNCHANGED <<link, left>>
    BY <1>1, <1>6, <2>1 DEF LinkByEmail, rows
  <2>2. CASE link' = [link EXCEPT ![i] = a] /\ left' = left \cup ({link[i]} \ {a, NoUser})
    <3>1. i \in Identity /\ UNCHANGED <<isActive, hasPassword, passkey, halfway>>
      BY <1>6 DEF IInv, RequestOK, LinkByEmail
    <3>2. \A j \in Identity : link'[j] = link[j] \/ link[j] \in left' \cup {link'[j], NoUser}
      BY <1>0, <2>2, <3>1 DEF TypeOK
    <3>3. NoUser \notin isActive
      BY <1>0, NullAssumption DEF TypeOK
    <3> QED
      BY <2>2, <3>1, <3>2, <3>3 DEF WayIn
  <2> QED
    BY <1>6, <2>1, <2>2 DEF LinkByEmail
<1>7. CASE CreateLinked(r)
  <2> DEFINE i == request[r].identity
             a == request[r].address
  <2>1. CASE UNCHANGED rows
    BY <1>1, <1>7, <2>1 DEF CreateLinked, others
  <2>2. CASE /\ link[i] = NoUser
             /\ isActive' = isActive \cup {a}
             /\ link' = [link EXCEPT ![i] = a]
             /\ UNCHANGED <<superAdmin, hasPassword, passkey>>
    <3>1. i \in Identity /\ UNCHANGED <<halfway, left>>
      BY <1>7 DEF IInv, RequestOK, CreateLinked, others
    <3>2. link'[i] = a /\ \A j \in Identity : link'[j] = link[j] \/ link[j] = NoUser
      BY <1>0, <2>2, <3>1 DEF TypeOK
    <3>3. NoUser \notin isActive
      BY <1>0, NullAssumption DEF TypeOK
    <3> QED
      BY <2>2, <3>1, <3>2, <3>3 DEF WayIn
  <2> QED
    BY <1>7, <2>1, <2>2 DEF CreateLinked
<1>8. CASE CommitDemotion(r)
  BY <1>8, WayInKept DEF CommitDemotion, others
<1> QED
  BY <1>2, <1>3, <1>4, <1>5, <1>6, <1>7, <1>8 DEF Handle

LEMMA NextWayIn ==
    ASSUME IInv, WayIn, [Next]_vars
    PROVE  WayIn'
<1>1. ASSUME UNCHANGED <<rows, halfway, left>>
      PROVE  WayIn'
  BY <1>1, WayInKept DEF rows
<1>2. ASSUME NEW r \in Request, NEW e \in Email,
             BeginRegister(r, e) \/ BeginSignup(r, e) \/ BeginVerify(r, e)
      PROVE  WayIn'
  BY <1>1, <1>2 DEF BeginRegister, BeginSignup, BeginVerify, others
<1>3. ASSUME NEW r \in Request, NEW i \in Identity, BeginOAuth(r, i)
      PROVE  WayIn'
  BY <1>1, <1>3 DEF BeginOAuth, others
<1>4. ASSUME NEW r \in Request, NEW a \in Address, BeginDemotion(r, a)
      PROVE  WayIn'
  BY <1>1, <1>4 DEF BeginDemotion, history, others
<1>5. ASSUME NEW a \in Address, GrantSuperAdmin(a) \/ Deactivate(a) \/ DeleteCredential(a)
      PROVE  WayIn'
  <2>1. CASE GrantSuperAdmin(a)
    BY <2>1, WayInKept DEF GrantSuperAdmin, history, others
  <2>2. CASE Deactivate(a)
    BY <2>2, WayInKept DEF Deactivate, history, others
  <2>3. CASE DeleteCredential(a)
    BY <2>3 DEF DeleteCredential, WayIn
  <2> QED
    BY <1>5, <2>1, <2>2, <2>3
<1>6. ASSUME NEW e \in Email, ExpireChallenge(e)
      PROVE  WayIn'
  BY <1>1, <1>6 DEF ExpireChallenge, history, others
<1>7. ASSUME NEW i \in Identity, NEW e \in Email \cup {NoEmail}, ChangeProfile(i, e)
      PROVE  WayIn'
  BY <1>1, <1>7 DEF ChangeProfile
<1>8. CASE PurgeLinks
  <2>1. /\ UNCHANGED <<isActive, hasPassword, passkey, halfway, left>>
        /\ \A i \in Identity : link[i] \in isActive => link'[i] = link[i]
    BY <1>8 DEF PurgeLinks, history, others
  <2> QED
    BY <2>1, WayInKept
<1>9. CASE UNCHANGED vars
  BY <1>1, <1>9 DEF vars, history, others
<1> QED
  BY <1>2, <1>3, <1>4, <1>5, <1>6, <1>7, <1>8, <1>9, HandleWayIn DEF Next

-----------------------------------------------------------------------------
\* The inductive invariant holds in every reachable state.
THEOREM Invariance == Spec => []IInv
<1>1. Init => IInv
  BY InitStep
<1>2. IInv /\ [Next]_vars => IInv'
  BY NextStep
<1> QED
  BY <1>1, <1>2, PTL DEF Spec

\* Every column and every local is of its kind; nothing refers to a missing account.
THEOREM TypeCorrect == Spec => []TypeOK
<1>1. IInv => TypeOK
  BY DEF IInv
<1> QED
  BY <1>1, Invariance, PTL

\* setRoles(): however many demotions overlap, a super_admin remains.
THEOREM NeverWithoutSuperAdmin == Spec => []SuperAdminsRemain
<1>1. IInv => SuperAdminsRemain
  BY DEF IInv
<1> QED
  BY <1>1, Invariance, PTL

\* oauthLogin(): an identity whose e-mail has not changed is linked to its own address.
THEOREM LinkedToOwnAddress == Spec => []LinkIsOwn
<1>1. IInv => LinkIsOwn
  BY DEF IInv
<1> QED
  BY <1>1, Invariance, PTL

\* oauthLogin(): a link moves only for an identity that two logins have both missed,
\* with different e-mails.
THEOREM LinksStay == Spec => LinkStays
<1> DEFINE Stays ==
             \A i \in Identity :
               link[i] # NoUser /\ link'[i] \notin {NoUser, link[i]} => i \in renamed \cap raced
<1>1. Init => MissesNoted
  BY IdleState DEF Init, MissesNoted, Looking
<1>2. IInv /\ MissesNoted /\ [Next]_vars => MissesNoted'
  BY NextMisses
<1>3. IInv /\ MissesNoted /\ [Next]_vars => [Stays]_vars
  BY OnlyRacedMove
<1> QED
  BY <1>1, <1>2, <1>3, Invariance, PTL DEF Spec, LinkStays

\* oauthLogin(), issueTokens(): nobody enters an account by a request that began after
\* its deactivation.
THEOREM DeactivatedStaysOut == Spec => []DeactivationSticks
<1>1. IInv => DeactivationSticks
  BY DEF IInv
<1> QED
  BY <1>1, Invariance, PTL

\* Whatever is created, linked, moved, deleted or purged, an active account keeps a
\* credential, apart from the three named ways to lose it.
THEOREM WayInRemains == Spec => []WayIn
<1>1. Init => WayIn
  BY DEF Init, WayIn
<1>2. IInv /\ WayIn /\ [Next]_vars => WayIn'
  BY NextWayIn
<1> QED
  BY <1>1, <1>2, Invariance, PTL DEF Spec
=============================================================================
