------------------------------- MODULE Sessions -------------------------------
(***************************************************************************)
(* Authentication with tokens: the RPCs of the accounts service that issue *)
(* access and refresh tokens, and the commands of the client, processes    *)
(* that share the file with the tokens of the user who is logged in.       *)
(* A file is not written in one step: ioutil.WriteFile truncates it first, *)
(* and logout removes it while another command may have it open.           *)
(* A pair of tokens is its user and the ticks until each token expires.    *)
(* An RPC that issues tokens decides with the User that it has looked up:  *)
(* he may be banned before the tokens are generated.                       *)
(***************************************************************************)
EXTENDS Integers

CONSTANTS
    Users,
    Bannable,     \* bound: Users who are banned and who change their password
    Commands,     \* processes of the client, on one machine, or of Nodes
    AccessTTL,    \* ACCOUNTS_ACCESS_TOKEN_TTL
    RefreshTTL,   \* ACCOUNTS_REFRESH_TOKEN_TTL
    Missing,      \* no file
    Unreadable,   \* a file that is empty or holds no pair of tokens
    None

ASSUME UsersAssumption == {Missing, Unreadable, None} \cap Users = {}
ASSUME TTLAssumption   == AccessTTL \in Nat \ {0} /\ RefreshTTL \in Nat \ {0}

VARIABLES
    banned,    \* Users with Banned in the database
    changed,   \* Users whose password is not the one they registered with
    file,      \* auth_tokens
    pc,        \* what each command does next
    kind,      \* its RPC: a login, of a Node, with a username, with an ID, a new password
    tokens,    \* the tokens that it holds
    named,     \* the username in its request
    linked     \* the file it has open is still in the directory

local == <<pc, kind, tokens, named, linked>>
vars  == <<banned, changed, file, local>>

Tokens == [user : Users, access : 0 .. AccessTTL, refresh : 0 .. RefreshTTL]

ASSUME NoTokensAssumption == {Missing, Unreadable, None} \cap Tokens = {}

\* Mutant of NewTokens: the lifetimes are swapped.
NewTokensSwapped(u) == [user |-> u, access |-> RefreshTTL, refresh |-> AccessTTL]

\* user.GenerateAuthTokens.
NewTokens(u) == [user |-> u, access |-> AccessTTL, refresh |-> RefreshTTL]

TypeOK ==
    /\ banned \subseteq Users /\ changed \subseteq Users
    /\ file \in Tokens \cup {Missing, Unreadable}
    /\ pc \in [Commands -> {"idle", "metadata", "node", "allowed", "save", "write", "sent"}]
    /\ kind \in [Commands -> {"login", "node", "named", "lookup", "password", "none"}]
    /\ tokens \in [Commands -> Tokens \cup {None}]
    /\ named \in [Commands -> Users \cup {None}]
    /\ linked \in [Commands -> BOOLEAN]

Init ==
    /\ banned = {} /\ changed = {}
    /\ file = Missing
    /\ pc = [p \in Commands |-> "idle"]
    /\ kind = [p \in Commands |-> "none"]
    /\ tokens = [p \in Commands |-> None]
    /\ named = [p \in Commands |-> None]
    /\ linked = [p \in Commands |-> FALSE]

Goto(p, from, to) == pc[p] = from /\ pc' = [pc EXCEPT ![p] = to]

\* The command has ended, with or without an error.
End(p, from) ==
    /\ Goto(p, from, "idle")
    /\ kind' = [kind EXCEPT ![p] = "none"]
    /\ tokens' = [tokens EXCEPT ![p] = None]
    /\ named' = [named EXCEPT ![p] = None]
    /\ linked' = [linked EXCEPT ![p] = FALSE]

-----------------------------------------------------------------------------
(* AccountsServer: who may have tokens. *)

IsAllowedToAuthenticate(u) == u \notin banned

\* Mutant of PasswordAuth: who knows the password may have tokens.
PasswordAuthAnyone(u, password) == password = (u \in changed)

\* UserLookUp; the password and the ban are checked on the struct.
PasswordAuth(u, password) ==
    /\ password = (u \in changed)
    /\ IsAllowedToAuthenticate(u)

\* Mutant of TokenAuth: who has a refresh token is not looked up.
TokenAuthUnchecked(t) == t.refresh > 0

\* NewClaimsFromStringVerified, and UserLookUp of the User in the claims.
TokenAuth(t) == t.refresh > 0 /\ IsAllowedToAuthenticate(t.user)

\* JWTClaimsInjector.InjectClaims: a token that is still valid, access or refresh, is
\* accepted as the bearer's.
InjectClaims(ticks) == ticks > 0

\* A request for what belongs to somebody else is refused.
claimsUsernameEqual(t, username) == t.user = username

\* Whom the RPC of a command has found, and found allowed to authenticate.
Subject(p) == IF kind[p] \in {"login", "node"} THEN named[p] ELSE tokens[p].user

\* A Node must also have its fingerprint, which is looked up now.
NodeLookUp(p) ==
    /\ Goto(p, "node", "allowed")
    /\ UNCHANGED <<banned, changed, file, kind, tokens, named, linked>>

\* A client saves the tokens before it uses them.
GenerateAuthTokens(p) ==
    /\ Goto(p, "allowed", IF kind[p] = "node" THEN "sent" ELSE "save")
    /\ tokens' = [tokens EXCEPT ![p] = NewTokens(Subject(p))]
    /\ UNCHANGED <<banned, changed, file, kind, named, linked>>

\* The fingerprint is another one, the tokens cannot be signed, or no answer arrives.
AuthFails(p) ==
    /\ \E from \in {"node", "allowed"} : End(p, from)
    /\ UNCHANGED <<banned, changed, file>>

-----------------------------------------------------------------------------
(* SaveTokens. *)

OpenFile(p) ==
    /\ Goto(p, "save", "write")
    /\ file' = Unreadable
    /\ linked' = [linked EXCEPT ![p] = TRUE]
    /\ UNCHANGED <<banned, changed, kind, tokens, named>>

\* Over what another command has written since: if that was longer, its rest is
\* left at the end.  A login ends here, a request is sent with the new tokens.
WriteFile(p) ==
    /\ file' \in IF ~linked[p] THEN {file}
                 ELSE IF file = Unreadable \/ file.user = tokens[p].user THEN {tokens[p]}
                 ELSE {tokens[p], Unreadable}
    /\ \/ kind[p] = "login" /\ End(p, "write")
       \/ /\ kind[p] # "login" /\ Goto(p, "write", "sent")
          /\ linked' = [linked EXCEPT ![p] = FALSE]
          /\ UNCHANGED <<kind, tokens, named>>
    /\ UNCHANGED <<banned, changed>>

\* The directory or the file cannot be made or written.
SaveTokensFails(p) ==
    /\ \E from \in {"save", "write"} : End(p, from)
    /\ UNCHANGED <<banned, changed, file>>

-----------------------------------------------------------------------------
(* The commands. *)

LoginController(p, u, password) ==
    /\ Goto(p, "idle", "allowed")
    /\ PasswordAuth(u, password)
    /\ kind' = [kind EXCEPT ![p] = "login"]
    /\ named' = [named EXCEPT ![p] = u]
    /\ UNCHANGED <<banned, changed, file, tokens, linked>>

\* A Node of u comes with the password of u.
NodeLogin(p, u, password) ==
    /\ Goto(p, "idle", "node")
    /\ PasswordAuth(u, password)
    /\ kind' = [kind EXCEPT ![p] = "node"]
    /\ named' = [named EXCEPT ![p] = u]
    /\ UNCHANGED <<banned, changed, file, tokens, linked>>

\* DeleteTokens.
LogoutController ==
    /\ file # Missing /\ file' = Missing
    /\ linked' = [p \in Commands |-> FALSE]
    /\ UNCHANGED <<banned, changed, pc, kind, tokens, named>>

\* LoadTokens and NewJWTCredentials; without tokens in the file the command ends.
LoadTokens(p, k) ==
    /\ Goto(p, "idle", "metadata")
    /\ file \in Tokens
    /\ kind' = [kind EXCEPT ![p] = k]
    /\ tokens' = [tokens EXCEPT ![p] = file]
    /\ UNCHANGED <<banned, changed, file, linked>>

\* Requests in the name of the user in the access token, expired or not.
InOwnName(p) == named' = [named EXCEPT ![p] = file.user]

ChangePasswordController(p) == LoadTokens(p, "password") /\ InOwnName(p)
CreateJobController(p)      == LoadTokens(p, "named") /\ InOwnName(p)
ListJobsController(p)       == LoadTokens(p, "named") /\ InOwnName(p)
ListTasksController(p)      == LoadTokens(p, "named") /\ InOwnName(p)

\* Requests for an entity, whoever owns it.
GetJobController(p)       == LoadTokens(p, "lookup") /\ UNCHANGED named
CancelJobController(p)    == LoadTokens(p, "lookup") /\ UNCHANGED named
GetTaskController(p)      == LoadTokens(p, "lookup") /\ UNCHANGED named
CancelTaskController(p)   == LoadTokens(p, "lookup") /\ UNCHANGED named
IterateTasksController(p) == LoadTokens(p, "lookup") /\ UNCHANGED named

Controllers(p) ==
    \/ ChangePasswordController(p) \/ CreateJobController(p)
    \/ ListJobsController(p) \/ ListTasksController(p)
    \/ GetJobController(p) \/ CancelJobController(p)
    \/ GetTaskController(p) \/ CancelTaskController(p) \/ IterateTasksController(p)

-----------------------------------------------------------------------------
(* JWTCredentials.GetRequestMetadata. *)

UseAccessToken(p) ==
    /\ Goto(p, "metadata", "sent")
    /\ tokens[p].access > 0
    /\ UNCHANGED <<banned, changed, file, kind, tokens, named, linked>>

\* Mutant of Refresh: the refresh token is the one in the file.
RefreshFromFile(p) ==
    /\ Goto(p, "metadata", "allowed")
    /\ tokens[p].access = 0 /\ file \in Tokens /\ TokenAuth(file)
    /\ tokens' = [tokens EXCEPT ![p] = file]
    /\ UNCHANGED <<banned, changed, file, kind, named, linked>>

\* The server's decision on the refresh token.
Refresh(p) ==
    /\ Goto(p, "metadata", "allowed")
    /\ tokens[p].access = 0 /\ TokenAuth(tokens[p])
    /\ UNCHANGED <<banned, changed, file, kind, tokens, named, linked>>

\* "Please, login."
RefreshFails(p) ==
    /\ tokens[p] # None /\ tokens[p].access = 0
    /\ End(p, "metadata")
    /\ UNCHANGED <<banned, changed, file>>

-----------------------------------------------------------------------------
(* The servers answer. *)

\* AccountsServer.ChangePassword, which commits and publishes.
ChangePassword(p) ==
    /\ kind[p] = "password" /\ End(p, "sent")
    /\ InjectClaims(tokens[p].access) /\ claimsUsernameEqual(tokens[p], named[p])
    /\ named[p] \in Bannable
    /\ changed' = changed \cup {named[p]}
    /\ UNCHANGED <<banned, file>>

\* The RPC answers or is refused; the tokens are as they are.
Answer(p) ==
    /\ End(p, "sent")
    /\ UNCHANGED <<banned, changed, file>>

Ban(u) ==
    /\ u \in Bannable \ banned /\ banned' = banned \cup {u}
    /\ UNCHANGED <<changed, file, local>>

Older(t) ==
    [t EXCEPT !.access = IF @ > 0 THEN @ - 1 ELSE 0, !.refresh = IF @ > 0 THEN @ - 1 ELSE 0]

Tick ==
    /\ file' = IF file \in Tokens THEN Older(file) ELSE file
    /\ tokens' = [p \in Commands |-> IF tokens[p] = None THEN None ELSE Older(tokens[p])]
    /\ UNCHANGED <<banned, changed, pc, kind, named, linked>>

Next ==
    \/ \E p \in Commands :
          \/ \E u \in Users, password \in BOOLEAN :
                LoginController(p, u, password) \/ NodeLogin(p, u, password)
          \/ NodeLookUp(p) \/ GenerateAuthTokens(p) \/ AuthFails(p)
          \/ Controllers(p)
          \/ OpenFile(p) \/ WriteFile(p) \/ SaveTokensFails(p)
          \/ UseAccessToken(p) \/ Refresh(p) \/ RefreshFails(p)
          \/ ChangePassword(p) \/ Answer(p)
    \/ LogoutController
    \/ \E u \in Users : Ban(u)
    \/ Tick

\* Time passes; the commands need not come or end.
Spec == Init /\ [][Next]_vars /\ WF_vars(Tick)

-----------------------------------------------------------------------------
(* Properties. *)

\* The username in a request and the token that is sent with it are of the same
\* user, also when others log in, log out and refresh in between: the scheduler and
\* the accounts service never refuse a user's request about himself.
RequestIsOwn ==
    \A p \in Commands :
        pc[p] = "sent" /\ named[p] # None => claimsUsernameEqual(tokens[p], named[p])

\* A token of u that a server would accept is in the file or in a command.
Accepted(t) == InjectClaims(t.access) \/ InjectClaims(t.refresh)

HasAccess(u) ==
    \/ file \in Tokens /\ file.user = u /\ Accepted(file)
    \/ \E p \in Commands : tokens[p] # None /\ tokens[p].user = u /\ Accepted(tokens[p])

\* The servers check tokens without looking the User up; a User that has been banned
\* can use those he has, and those of an RPC that has looked him up before, but in the
\* end no command has a valid one and none will, however often tokens were refreshed.
BannedIsLockedOut == \A u \in Users : u \in banned ~> [](~HasAccess(u))

\* An RPC that has found u allowed to authenticate is about to issue his tokens.
IsIssuing(u) == \E p \in Commands : pc[p] \in {"node", "allowed"} /\ Subject(p) = u

\* The User u is banned, has no token left that a server accepts and waits for none.
LockedOut(u) == u \in banned /\ ~HasAccess(u) /\ ~IsIssuing(u)

\* Then he never has one again, whatever files and commands are still around: an RPC
\* that looked him up before the ban is the only way back in.
LockedOutForGood == [][\A u \in Users : LockedOut(u) => LockedOut(u)']_vars
=============================================================================
