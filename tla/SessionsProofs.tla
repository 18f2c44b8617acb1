----------------------------- MODULE SessionsProofs -----------------------------
(***************************************************************************)
(* Proofs about Sessions, for all users, commands and lifetimes of tokens. *)
(***************************************************************************)
EXTENDS Sessions, TLAPS

\* A login has tokens once they are issued, any other command from its first step to its
\* last; it names the user of these tokens, although it may have got them from a file
\* that others have written since, and refreshed them.
TokensInv ==
    \A p \in Commands :
        /\ pc[p] = "idle" => tokens[p] = None /\ named[p] = None
        /\ pc[p] = "node" => kind[p] = "node"
        /\ pc[p] = "metadata" => kind[p] \notin {"login", "node"}
        /\ pc[p] \in {"node", "allowed"} => Subject(p) \in Users
        /\ IF pc[p] \in {"idle", "node"} \/ (pc[p] = "allowed" /\ kind[p] \in {"login", "node"})
           THEN tokens[p] = None
           ELSE tokens[p] \in Tokens /\ (named[p] # None => named[p] = tokens[p].user)

IInv == TypeOK /\ TokensInv
-----------------------------------------------------------------------------
\* New tokens and tokens that have aged are tokens, of the same user.
LEMMA NewTokensType ==
    ASSUME NEW u \in Users
    PROVE  NewTokens(u) \in Tokens /\ NewTokens(u).user = u
BY TTLAssumption DEF NewTokens, Tokens

LEMMA OlderType ==
    ASSUME NEW t \in Tokens
    PROVE  /\ Older(t) \in Tokens /\ Older(t).user = t.user
           /\ Older(t).access > 0 => t.access > 0
           /\ Older(t).refresh > 0 => t.refresh > 0
<1> DEFINE a == IF t.access > 0 THEN t.access - 1 ELSE 0
           r == IF t.refresh > 0 THEN t.refresh - 1 ELSE 0
<1>1. t = [user |-> t.user, access |-> t.access, refresh |-> t.refresh]
    BY DEF Tokens
<1>2. Older(t) = [[t EXCEPT !.access = a] EXCEPT !.refresh = r]
    BY <1>1 DEF Older
<1>3. Older(t) = [user |-> t.user, access |-> a, refresh |-> r]
    BY <1>1, <1>2
<1>4. a \in 0 .. AccessTTL /\ r \in 0 .. RefreshTTL
    BY TTLAssumption DEF Tokens
<1>. QED
    BY <1>3, <1>4 DEF Tokens

\* The user of tokens; what stands for no tokens is none.
LEMMA TokensFacts ==
    /\ \A t \in Tokens : t.user \in Users
    /\ None \notin Tokens /\ Missing \notin Tokens /\ Unreadable \notin Tokens
BY NoTokensAssumption DEF Tokens

\* No command has begun.
LEMMA InitInv == Init => IInv
BY DEF Init, IInv, TypeOK, TokensInv

\* What is saved is a pair of tokens that some server has issued.
LEMMA TypeStep == IInv /\ [Next]_vars => TypeOK'
<1> SUFFICES ASSUME IInv, [Next]_vars PROVE TypeOK'
    OBVIOUS
<1> USE UsersAssumption, TokensFacts, NewTokensType, OlderType
<1> USE DEF IInv, TypeOK, TokensInv, Subject, Goto, End, local
<1>1. ASSUME NEW p \in Commands, NEW u \in Users, NEW password \in BOOLEAN, LoginController(p, u, password) PROVE TypeOK'
    BY <1>1 DEF LoginController
<1>2. ASSUME NEW p \in Commands, Controllers(p) PROVE TypeOK'
    BY <1>2 DEF Controllers, ChangePasswordController, CreateJobController, ListJobsController,
       ListTasksController, GetJobController, CancelJobController, GetTaskController,
       CancelTaskController, IterateTasksController, LoadTokens, InOwnName
<1>3. ASSUME NEW p \in Commands, OpenFile(p) PROVE TypeOK'
    BY <1>3 DEF OpenFile
<1>4. ASSUME NEW p \in Commands, WriteFile(p) PROVE TypeOK'
  <2>1. tokens[p] \in Tokens
    BY <1>4 DEF WriteFile
  <2>2. file' \in {file, tokens[p], Unreadable}
    BY <1>4 DEF WriteFile
  <2>3. \/ End(p, "write")
        \/ /\ Goto(p, "write", "sent")
           /\ linked' = [linked EXCEPT ![p] = FALSE]
           /\ UNCHANGED <<kind, tokens, named>>
    BY <1>4 DEF WriteFile
  <2>4. UNCHANGED <<banned, changed>>
    BY <1>4 DEF WriteFile
  <2>5. CASE End(p, "write")
    BY <2>1, <2>2, <2>4, <2>5
  <2>6. CASE Goto(p, "write", "sent") /\ linked' = [linked EXCEPT ![p] = FALSE] /\ UNCHANGED <<kind, tokens, named>>
    BY <2>1, <2>2, <2>4, <2>6
  <2>. QED
    BY <2>3, <2>5, <2>6
<1>5. ASSUME NEW p \in Commands, SaveTokensFails(p) PROVE TypeOK'
    BY <1>5 DEF SaveTokensFails
<1>6. ASSUME NEW p \in Commands, UseAccessToken(p) PROVE TypeOK'
    BY <1>6 DEF UseAccessToken
<1>7. ASSUME NEW p \in Commands, Refresh(p) PROVE TypeOK'
    BY <1>7 DEF Refresh
<1>8. ASSUME NEW p \in Commands, RefreshFails(p) PROVE TypeOK'
    BY <1>8 DEF RefreshFails
<1>9. ASSUME NEW p \in Commands, ChangePassword(p) PROVE TypeOK'
  <2>1. named[p] \in Users
    BY <1>9 DEF ChangePassword, claimsUsernameEqual
  <2>. QED
    BY <1>9, <2>1 DEF ChangePassword
<1>10. ASSUME NEW p \in Commands, Answer(p) PROVE TypeOK'
    BY <1>10 DEF Answer
<1>11. CASE LogoutController
    BY <1>11 DEF LogoutController
<1>12. ASSUME NEW u \in Users, Ban(u) PROVE TypeOK'
    BY <1>12 DEF Ban
<1>13. CASE Tick
    BY <1>13 DEF Tick
<1>14. ASSUME NEW p \in Commands, NEW u \in Users, NEW password \in BOOLEAN, NodeLogin(p, u, password) PROVE TypeOK'
    BY <1>14 DEF NodeLogin
<1>15. ASSUME NEW p \in Commands, NodeLookUp(p) PROVE TypeOK'
    BY <1>15 DEF NodeLookUp
<1>16. ASSUME NEW p \in Commands, GenerateAuthTokens(p) PROVE TypeOK'
    BY <1>16 DEF GenerateAuthTokens
<1>17. ASSUME NEW p \in Commands, AuthFails(p) PROVE TypeOK'
    BY <1>17 DEF AuthFails
<1>18. CASE UNCHANGED vars
    BY <1>18 DEF vars, local
<1>. QED
    BY <1>1, <1>2, <1>3, <1>4, <1>5, <1>6, <1>7, <1>8, <1>9, <1>10, <1>11, <1>12, <1>13, <1>14, <1>15, <1>16, <1>17, <1>18 DEF Next

\* Only LoadTokens reads the file; from then on a command keeps to what it has read.
LEMMA TokensStep == IInv /\ [Next]_vars => TokensInv'
<1> SUFFICES ASSUME IInv, [Next]_vars PROVE TokensInv'
    OBVIOUS
<1> USE UsersAssumption, TokensFacts, NewTokensType, OlderType
<1> USE DEF IInv, TypeOK, TokensInv, Subject, Goto, End, local
<1>1. ASSUME NEW p \in Commands, NEW u \in Users, NEW password \in BOOLEAN, LoginController(p, u, password) PROVE TokensInv'
    BY <1>1 DEF LoginController
<1>2. ASSUME NEW p \in Commands, Controllers(p) PROVE TokensInv'
    BY <1>2 DEF Controllers, ChangePasswordController, CreateJobController, ListJobsController,
       ListTasksController, GetJobController, CancelJobController, GetTaskController,
       CancelTaskController, IterateTasksController, LoadTokens, InOwnName
<1>3. ASSUME NEW p \in Commands, OpenFile(p) PROVE TokensInv'
    BY <1>3 DEF OpenFile
<1>4. ASSUME NEW p \in Commands, WriteFile(p) PROVE TokensInv'
    BY <1>4 DEF WriteFile
<1>5. ASSUME NEW p \in Commands, SaveTokensFails(p) PROVE TokensInv'
    BY <1>5 DEF SaveTokensFails
<1>6. ASSUME NEW p \in Commands, UseAccessToken(p) PROVE TokensInv'
    BY <1>6 DEF UseAccessToken
<1>7. ASSUME NEW p \in Commands, Refresh(p) PROVE TokensInv'
    BY <1>7 DEF Refresh
<1>8. ASSUME NEW p \in Commands, RefreshFails(p) PROVE TokensInv'
    BY <1>8 DEF RefreshFails
<1>9. ASSUME NEW p \in Commands, ChangePassword(p) PROVE TokensInv'
    BY <1>9 DEF ChangePassword
<1>10. ASSUME NEW p \in Commands, Answer(p) PROVE TokensInv'
    BY <1>10 DEF Answer
<1>11. CASE LogoutController
    BY <1>11 DEF LogoutController
<1>12. ASSUME NEW u \in Users, Ban(u) PROVE TokensInv'
    BY <1>12 DEF Ban
<1>13. CASE Tick
    BY <1>13 DEF Tick
<1>14. ASSUME NEW p \in Commands, NEW u \in Users, NEW password \in BOOLEAN, NodeLogin(p, u, password) PROVE TokensInv'
    BY <1>14 DEF NodeLogin
<1>15. ASSUME NEW p \in Commands, NodeLookUp(p) PROVE TokensInv'
    BY <1>15 DEF NodeLookUp
<1>16. ASSUME NEW p \in Commands, GenerateAuthTokens(p) PROVE TokensInv'
    BY <1>16 DEF GenerateAuthTokens
<1>17. ASSUME NEW p \in Commands, AuthFails(p) PROVE TokensInv'
    BY <1>17 DEF AuthFails
<1>18. CASE UNCHANGED vars
    BY <1>18 DEF vars, local
<1>. QED
    BY <1>1, <1>2, <1>3, <1>4, <1>5, <1>6, <1>7, <1>8, <1>9, <1>10, <1>11, <1>12, <1>13, <1>14, <1>15, <1>16, <1>17, <1>18 DEF Next

LEMMA Invariance == Spec => []IInv
BY InitInv, TypeStep, TokensStep, PTL DEF Spec, IInv

-----------------------------------------------------------------------------
\* The variables of Sessions keep their types: what is in the file is nothing, not
\* readable, or a pair of tokens that has not outlived its time.
THEOREM TypeCorrect == Spec => []TypeOK
BY Invariance, PTL DEF IInv

\* A request and the token it is sent with are of the same user, however many commands
\* log in, log out and refresh the tokens in the file meanwhile.
THEOREM OwnRequest == Spec => []RequestIsOwn
<1>1. IInv => RequestIsOwn
    BY DEF IInv, TokensInv, RequestIsOwn, claimsUsernameEqual
<1>. QED
    BY <1>1, Invariance, PTL

\* The step that LockedOutForGood rests on: an RPC that finds a User is about to issue
\* tokens only if he was not banned, and every other pair of tokens is a copy of one that
\* was there.
LEMMA LockedOutStep ==
    ASSUME IInv, [Next]_vars, NEW u \in Users, LockedOut(u)
    PROVE  LockedOut(u)'
<1> USE UsersAssumption, TokensFacts, NewTokensType, OlderType
<1> USE DEF IInv, TypeOK, TokensInv, Subject, Goto, End, local, LockedOut, HasAccess, IsIssuing, Accepted,
           InjectClaims
<1>1. ASSUME NEW p \in Commands, NEW v \in Users, NEW password \in BOOLEAN, LoginController(p, v, password) PROVE LockedOut(u)'
    BY <1>1 DEF LoginController, PasswordAuth, IsAllowedToAuthenticate
<1>2. ASSUME NEW p \in Commands, Controllers(p) PROVE LockedOut(u)'
    BY <1>2 DEF Controllers, ChangePasswordController, CreateJobController, ListJobsController,
       ListTasksController, GetJobController, CancelJobController, GetTaskController,
       CancelTaskController, IterateTasksController, LoadTokens, InOwnName
<1>3. ASSUME NEW p \in Commands, OpenFile(p) PROVE LockedOut(u)'
    BY <1>3 DEF OpenFile
<1>4. ASSUME NEW p \in Commands, WriteFile(p) PROVE LockedOut(u)'
    BY <1>4 DEF WriteFile
<1>5. ASSUME NEW p \in Commands, SaveTokensFails(p) PROVE LockedOut(u)'
    BY <1>5 DEF SaveTokensFails
<1>6. ASSUME NEW p \in Commands, UseAccessToken(p) PROVE LockedOut(u)'
    BY <1>6 DEF UseAccessToken
<1>7. ASSUME NEW p \in Commands, Refresh(p) PROVE LockedOut(u)'
    BY <1>7 DEF Refresh, TokenAuth, IsAllowedToAuthenticate
<1>8. ASSUME NEW p \in Commands, RefreshFails(p) PROVE LockedOut(u)'
    BY <1>8 DEF RefreshFails
<1>9. ASSUME NEW p \in Commands, ChangePassword(p) PROVE LockedOut(u)'
    BY <1>9 DEF ChangePassword
<1>10. ASSUME NEW p \in Commands, Answer(p) PROVE LockedOut(u)'
    BY <1>10 DEF Answer
<1>11. CASE LogoutController
    BY <1>11 DEF LogoutController
<1>12. ASSUME NEW v \in Users, Ban(v) PROVE LockedOut(u)'
    BY <1>12 DEF Ban
<1>13. CASE Tick
    BY <1>13 DEF Tick
<1>14. ASSUME NEW p \in Commands, NEW v \in Users, NEW password \in BOOLEAN, NodeLogin(p, v, password) PROVE LockedOut(u)'
    BY <1>14 DEF NodeLogin, PasswordAuth, IsAllowedToAuthenticate
<1>15. ASSUME NEW p \in Commands, NodeLookUp(p) PROVE LockedOut(u)'
    BY <1>15 DEF NodeLookUp
<1>16. ASSUME NEW p \in Commands, GenerateAuthTokens(p) PROVE LockedOut(u)'
    BY <1>16 DEF GenerateAuthTokens
<1>17. ASSUME NEW p \in Commands, AuthFails(p) PROVE LockedOut(u)'
    BY <1>17 DEF AuthFails
<1>18. CASE UNCHANGED vars
    BY <1>18 DEF vars, local
<1>. QED
    BY <1>1, <1>2, <1>3, <1>4, <1>5, <1>6, <1>7, <1>8, <1>9, <1>10, <1>11, <1>12, <1>13, <1>14, <1>15, <1>16, <1>17, <1>18 DEF Next

\* Once no valid token of a banned User is left, and no RPC that found him before the ban,
\* there will be none, for any Users, commands and lifetimes: the safety half of
\* BannedIsLockedOut.
THEOREM NoAccessComesBack == Spec => LockedOutForGood
<1>1. IInv /\ [Next]_vars => [\A u \in Users : LockedOut(u) => LockedOut(u)']_vars
    BY LockedOutStep
<1>. QED
    BY <1>1, Invariance, PTL DEF Spec, LockedOutForGood
=============================================================================
