---------------------------- MODULE SessionProofs ----------------------------
(***************************************************************************)
(* Proofs about Session, for any apps, terminals and number of upsets.     *)
(*                                                                         *)
(* The argument: a sign-in whose temporary file is written has its own app *)
(* there, whatever the other terminals write, and has added the app to     *)
(* signedIn before (SignInInv); only such a file takes the record's place, *)
(* and what others leave half-written does not.  A session that is live    *)
(* has the scopes of some sign-in, so it may write unless one of its app's *)
(* was narrowed (ScopeInv); a server's credential was made from such a     *)
(* session, and Microsoft forgets no consent (CredInv).                    *)
(***************************************************************************)
EXTENDS Session, TLAPS

USE SessionAssumption DEF SessionAssumption

\* Who waits for consent asks to write unless the sign-in is a narrowed one,
\* who has it is in signedIn, and a file that was written is whole.
SignInInv ==
  \A t \in Terminal :
    /\ cli[t].at = "waiting" /\ ~cli[t].narrow => "write" \in cli[t].scopes
    /\ cli[t].at \in {"writing", "written"} => cli[t].app \in signedIn
    /\ cli[t].at = "written" => temp[t] = cli[t].app

\* A live session may write unless it was narrowed.
ScopeInv == \A a \in App : session[a] = "live" /\ a \notin narrowed => "write" \in granted[a]

\* So may a server's credential, whatever became of the session since.
CredInv == Serving => server.cred = server.cfg.app
                      /\ (server.cred \notin narrowed => "write" \in granted[server.cred])

IInv == TypeOK /\ RecordIsOfASignIn /\ SignInInv /\ ScopeInv /\ CredInv

ServerType ==
  {Down, [at |-> "starting"]}
    \cup {s \in [at : {"up"}, cfg : [app : App \cup {NoApp}, readOnly : BOOLEAN],
                 cred : App \cup {NoApp}, error : Errors] :
            /\ s.error # "none" => s.cred = NoApp
            /\ s.error = "config_load" => s.cfg.readOnly}

Waiting == [at : {"waiting"}, app : App, scopes : SUBSET {"read", "write"}, narrow : BOOLEAN]
Saving  == [at : {"writing", "written"}, app : App]
SignIn  == Waiting \cup Saving

TypeInv ==
  /\ config \in Config /\ encrypted \in BOOLEAN /\ record \in App \cup {NoRecord, Torn}
  /\ temp \in [Terminal -> App \cup {NoFile, Torn}]
  /\ granted \in [App -> SUBSET {"read", "write"}]
  /\ session \in [App -> {"none", "live", "deadend"}]
  /\ cli \in [Terminal -> {Idle} \cup SignIn]
  /\ server \in ServerType
  /\ told \subseteq {"auth", "config", "plaintext"}
  /\ signedIn \subseteq App /\ narrowed \subseteq App
  /\ upsets \in 0..MaxUpsets

USE DEF TypeInv

\* TypeOK with the sets of sign-ins and servers named.
LEMMA TypeParts == (TypeOK <=> TypeInv) /\ (TypeOK' <=> TypeInv')
  BY DEF TypeOK, ServerType, SignIn, Waiting, Saving

\* At first nobody signs in and no session is live.
LEMMA InitInv == Init => IInv
  <1> SUFFICES ASSUME Init PROVE IInv
    OBVIOUS
  <1>1. /\ config \in Config /\ encrypted \in BOOLEAN /\ record \in App \cup {NoRecord, Torn}
        /\ temp \in [Terminal -> App \cup {NoFile, Torn}]
        /\ granted \in [App -> SUBSET {"read", "write"}]
        /\ session \in [App -> {"none", "live", "deadend"}]
    BY DEF Init, Config
  <1>2. cli \in [Terminal -> {Idle} \cup SignIn] /\ server \in ServerType
    BY DEF Init, ServerType
  <1>3. /\ told \subseteq {"auth", "config", "plaintext"}
        /\ signedIn \subseteq App /\ narrowed \subseteq App /\ upsets \in 0..MaxUpsets
    BY DEF Init
  <1>4. TypeOK
    BY <1>1, <1>2, <1>3, TypeParts
  <1>5. RecordIsOfASignIn
    BY DEF Init, RecordIsOfASignIn
  <1>6. SignInInv
    BY DEF Init, SignInInv, Idle
  <1>7. ScopeInv
    BY DEF Init, ScopeInv
  <1>8. CredInv
    BY DEF Init, CredInv, Serving, Down
  <1> QED
    BY <1>4, <1>5, <1>6, <1>7, <1>8 DEF IInv

LEMMA UpsetType == ASSUME TypeOK, Upset PROVE upsets' \in 0..MaxUpsets
  BY DEF TypeOK, Upset

\* Steps that touch neither sessions, sign-ins nor the server.
LEMMA ElsewhereStep ==
  ASSUME IInv, UNCHANGED <<temp, cloud, cli, server, history>>,
         config' \in Config, encrypted' \in BOOLEAN, record' \in {record, NoRecord},
         told' \subseteq {"auth", "config", "plaintext"}, upsets' \in 0..MaxUpsets
  PROVE  IInv'
  <1>1. TypeOK'
    BY TypeParts DEF IInv, cloud, history
  <1>2. RecordIsOfASignIn'
    BY DEF IInv, RecordIsOfASignIn, history
  <1>3. SignInInv' /\ ScopeInv' /\ CredInv'
    BY DEF IInv, SignInInv, ScopeInv, CredInv, Serving, cloud, history
  <1> QED
    BY <1>1, <1>2, <1>3 DEF IInv

LEMMA EditConfigStep == ASSUME IInv, EditConfig PROVE IInv'
  <1>1. config \in Config
    BY DEF IInv, TypeOK
  <1>2. \A a \in App : [config EXCEPT !.app = a] \in Config
    BY <1>1 DEF Config
  <1>3. \A r, n \in BOOLEAN : [config EXCEPT !.readOnly = r, !.readOnlyConsent = n] \in Config
    BY <1>1 DEF Config
  <1>4. [config EXCEPT !.valid = FALSE] \in Config
    BY <1>1 DEF Config
  <1>5. config' \in Config
    BY <1>2, <1>3, <1>4 DEF EditConfig
  <1> QED
    BY <1>5, UpsetType, ElsewhereStep DEF EditConfig, IInv, TypeOK

LEMMA LogoutStep == ASSUME IInv, NEW t \in Terminal, Logout(t) PROVE IInv'
  BY UpsetType, ElsewhereStep DEF Logout, IInv, TypeOK, Tell

LEMMA StatusStep == ASSUME IInv, Status PROVE IInv'
  BY ElsewhereStep DEF Status, IInv, TypeOK, Tell, Remedy, disk

LEMMA ToolCallStep == ASSUME IInv, ToolCallRefused PROVE IInv'
  BY ElsewhereStep DEF ToolCallRefused, IInv, TypeOK, Tell, Remedy, disk

LEMMA MendStep == ASSUME IInv, MendConfig \/ MendStore PROVE IInv'
  <1>1. config \in Config /\ encrypted \in BOOLEAN
    BY DEF IInv, TypeOK
  <1>2. \A a \in App, b \in BOOLEAN :
          /\ [config EXCEPT !.app = a, !.valid = TRUE, !.readOnlyConsent = b] \in Config
          /\ [config EXCEPT !.app = a, !.valid = TRUE, !.readOnly = b] \in Config
    BY <1>1 DEF Config
  <1>3. config.readOnly \in BOOLEAN /\ config.readOnlyConsent \in BOOLEAN
        /\ [config EXCEPT !.plaintext = TRUE] \in Config
    BY <1>1 DEF Config
  <1>4. config' \in Config /\ encrypted' \in BOOLEAN
    BY <1>1, <1>2, <1>3 DEF MendConfig, MendStore
  <1> QED
    BY <1>4, ElsewhereStep DEF MendConfig, MendStore, IInv, TypeOK, Heeded

\* A session that ends is not live any more; no consent is taken back.
LEMMA RevokeStep == ASSUME IInv, NEW a \in App, Revoke(a) PROVE IInv'
  <1>1. session' \in [App -> {"none", "live", "deadend"}]
        /\ \A b \in App : session'[b] = "live" => session[b] = "live"
    BY DEF Revoke, IInv, TypeOK
  <1>2. TypeOK'
    BY <1>1, UpsetType, TypeParts DEF Revoke, IInv, disk, history
  <1>3. RecordIsOfASignIn' /\ SignInInv' /\ CredInv'
    BY DEF Revoke, IInv, RecordIsOfASignIn, SignInInv, CredInv, Serving, disk, history
  <1>4. ScopeInv'
    BY <1>1 DEF Revoke, IInv, ScopeInv, history
  <1> QED
    BY <1>2, <1>3, <1>4 DEF IInv

\* Steps of one terminal that leave the sessions alone: what it is left with,
\* and what is in its file, is all there is to show.
LEMMA TerminalStep ==
  ASSUME IInv, NEW t \in Terminal, NEW s \in {Idle} \cup SignIn,
         NEW f \in App \cup {NoFile, Torn},
         cli' = [cli EXCEPT ![t] = s], temp' = [temp EXCEPT ![t] = f],
         s.at = "waiting" /\ ~s.narrow => "write" \in s.scopes,
         s.at \in {"writing", "written"} => s.app \in signedIn,
         s.at = "written" => f = s.app,
         UNCHANGED <<config, encrypted, cloud, server, history>>,
         record' \in {record} \cup signedIn,
         told' \subseteq {"auth", "config", "plaintext"}, upsets' \in 0..MaxUpsets
  PROVE  IInv'
  <1>1. cli' \in [Terminal -> {Idle} \cup SignIn] /\ temp' \in [Terminal -> App \cup {NoFile, Torn}]
    BY TypeParts DEF IInv
  <1>2. TypeOK'
    BY <1>1, TypeParts DEF IInv, cloud, history
  <1>3. RecordIsOfASignIn'
    BY DEF IInv, RecordIsOfASignIn, history
  <1>4. SignInInv'
    <2> SUFFICES ASSUME NEW u \in Terminal
                 PROVE  /\ cli'[u].at = "waiting" /\ ~cli'[u].narrow => "write" \in cli'[u].scopes
                        /\ cli'[u].at \in {"writing", "written"} => cli'[u].app \in signedIn'
                        /\ cli'[u].at = "written" => temp'[u] = cli'[u].app
      BY DEF SignInInv
    <2>1. CASE u = t
      <3>1. cli'[u] = s /\ temp'[u] = f
        BY <2>1, TypeParts DEF IInv
      <3> QED
        BY <3>1 DEF history
    <2>2. CASE u # t
      <3>1. cli'[u] = cli[u] /\ temp'[u] = temp[u]
        BY <2>2, TypeParts DEF IInv
      <3> QED
        BY <3>1 DEF IInv, SignInInv, history
    <2> QED
      BY <2>1, <2>2
  <1>5. ScopeInv' /\ CredInv'
    BY DEF IInv, ScopeInv, CredInv, Serving, cloud, history
  <1> QED
    BY <1>2, <1>3, <1>4, <1>5 DEF IInv

\* A narrowed sign-in is one under read_only_consent; any other asks to write.
LEMMA StartAuthStep == ASSUME IInv, NEW t \in Terminal, StartAuth(t) PROVE IInv'
  <1>1. told' \subseteq {"auth", "config", "plaintext"}
    BY DEF StartAuth, Heeded, IInv, TypeOK
  <1>2. CASE cli' = cli
    BY <1>1, <1>2, ElsewhereStep DEF StartAuth, IInv, TypeOK, disk
  <1>3. CASE cli' # cli
    <2> DEFINE s == [at |-> "waiting", app |-> config.app, scopes |-> Scopes(config),
                     narrow |-> config.readOnlyConsent]
    <2>1. config.app \in App /\ cli' = [cli EXCEPT ![t] = s]
      BY <1>3 DEF StartAuth, IInv, TypeOK, Config
    <2>2. s \in SignIn /\ (~s.narrow => "write" \in s.scopes) /\ s.at = "waiting"
      BY <2>1 DEF SignIn, Waiting, Scopes, IInv, TypeOK, Config
    <2>3. UNCHANGED <<disk, cloud, server, history, upsets>> /\ upsets \in 0..MaxUpsets
      BY DEF StartAuth, IInv, TypeOK
    <2>4. temp' = [temp EXCEPT ![t] = temp[t]] /\ temp[t] \in App \cup {NoFile, Torn}
      BY <2>3, TypeParts DEF IInv, disk
    <2> HIDE DEF s
    <2> QED
      BY <1>1, <2>1, <2>2, <2>3, <2>4, TerminalStep DEF disk
  <1> QED
    BY <1>2, <1>3

\* A command that dies leaves its file as it is, or none.
LEMMA KillStep == ASSUME IInv, NEW t \in Terminal, Kill(t) \/ WriteFails(t) PROVE IInv'
  <1>1. Idle.at = "idle"
    BY DEF Idle
  <1>2. temp \in [Terminal -> App \cup {NoFile, Torn}] /\ upsets' \in 0..MaxUpsets
        /\ told \subseteq {"auth", "config", "plaintext"}
    BY UpsetType, TypeParts DEF Kill, WriteFails, IInv
  <1>3. PICK f \in App \cup {NoFile, Torn} : temp' = [temp EXCEPT ![t] = f]
    <2>1. CASE Kill(t)
      <3>1. temp' = [temp EXCEPT ![t] = temp[t]]
        BY <1>2, <2>1 DEF Kill, disk
      <3> QED
        BY <1>2, <3>1
    <2>2. CASE WriteFails(t)
      BY <2>2 DEF WriteFails, TempFile
    <2> QED
      BY <2>1, <2>2
  <1> QED
    BY <1>1, <1>2, <1>3, TerminalStep DEF Kill, WriteFails, disk

\* The file that is written has the app of this sign-in, and no other terminal
\* has it for its own.
LEMMA WriteTempStep == ASSUME IInv, NEW t \in Terminal, WriteTemp(t) PROVE IInv'
  <1> DEFINE s == [cli[t] EXCEPT !.at = "written"]
  <1>1. cli[t] \in Saving /\ cli[t].at = "writing"
    BY TypeParts DEF WriteTemp, IInv, SignIn, Waiting, Saving, Idle
  <1>2. s \in SignIn /\ s.at = "written" /\ s.app = cli[t].app /\ s.app \in App
    BY <1>1 DEF SignIn, Saving
  <1>3. s.app \in signedIn
    BY <1>1, <1>2 DEF IInv, SignInInv
  <1>4. cli' = [cli EXCEPT ![t] = s] /\ temp' = [temp EXCEPT ![t] = s.app]
    BY <1>2 DEF WriteTemp, TempFile
  <1> HIDE DEF s
  <1>5. UNCHANGED <<config, encrypted, record, cloud, server, told, history, upsets>>
        /\ told \subseteq {"auth", "config", "plaintext"} /\ upsets \in 0..MaxUpsets
    BY TypeParts DEF WriteTemp, IInv
  <1> QED
    BY <1>2, <1>3, <1>4, <1>5, TerminalStep

\* What takes the record's place was written whole, for an app that was signed
\* in to.
LEMMA ReplaceRecordStep == ASSUME IInv, NEW t \in Terminal, ReplaceRecord(t) PROVE IInv'
  <1>1. Idle.at = "idle" /\ record' \in signedIn
    BY DEF Idle, ReplaceRecord, TempFile, IInv, SignInInv
  <1>2. cli' = [cli EXCEPT ![t] = Idle] /\ temp' = [temp EXCEPT ![t] = NoFile]
        /\ UNCHANGED <<config, encrypted, cloud, server, told, history, upsets>>
    BY DEF ReplaceRecord, TempFile
  <1> QED
    BY <1>1, <1>2, TypeParts, TerminalStep DEF IInv

\* Consent adds the scopes that were asked for, and narrowed its app's name if
\* writing was not among them.
LEMMA ConsentStep == ASSUME IInv, NEW t \in Terminal, Consent(t) PROVE IInv'
  <1> DEFINE a == cli[t].app
  <1>1. /\ cli[t] \in Waiting /\ cli[t].at = "waiting" /\ a \in App
        /\ cli[t].scopes \subseteq {"read", "write"}
    BY TypeParts DEF Consent, IInv, SignIn, Waiting, Saving, Idle
  <1>2. /\ granted' = [granted EXCEPT ![a] = granted[a] \cup cli[t].scopes]
        /\ session' = [session EXCEPT ![a] = IF granted'[a] = {} THEN "deadend" ELSE "live"]
        /\ cli' = [cli EXCEPT ![t] = [at |-> "writing", app |-> a]]
        /\ temp' = [temp EXCEPT ![t] = Torn]
        /\ signedIn' = signedIn \cup {a}
        /\ narrowed' = IF cli[t].narrow THEN narrowed \cup {a} ELSE narrowed
        /\ UNCHANGED <<config, encrypted, record, server, told, upsets>>
    BY DEF Consent, TempFile
  <1> HIDE DEF a
  <1>3. granted' \in [App -> SUBSET {"read", "write"}]
        /\ session' \in [App -> {"none", "live", "deadend"}]
    BY <1>1, <1>2, TypeParts DEF IInv
  <1>4. cli' \in [Terminal -> {Idle} \cup SignIn] /\ temp' \in [Terminal -> App \cup {NoFile, Torn}]
    <2>1. [at |-> "writing", app |-> a] \in SignIn
      BY <1>1 DEF SignIn, Saving
    <2> QED
      BY <1>2, <2>1, TypeParts DEF IInv
  <1>5. TypeOK'
    BY <1>1, <1>2, <1>3, <1>4, TypeParts DEF IInv
  <1>6. \A b \in App : granted[b] \subseteq granted'[b]
    BY <1>1, <1>2, TypeParts DEF IInv
  <1>7. a \notin narrowed' => "write" \in granted'[a]
    BY <1>1, <1>2, TypeParts DEF IInv, SignInInv, a
  <1>8. RecordIsOfASignIn'
    BY <1>2 DEF IInv, RecordIsOfASignIn
  <1>9. SignInInv'
    <2> SUFFICES ASSUME NEW u \in Terminal
                 PROVE  /\ cli'[u].at = "waiting" /\ ~cli'[u].narrow => "write" \in cli'[u].scopes
                        /\ cli'[u].at \in {"writing", "written"} => cli'[u].app \in signedIn'
                        /\ cli'[u].at = "written" => temp'[u] = cli'[u].app
      BY DEF SignInInv
    <2>1. CASE u = t
      <3>1. cli'[t].at = "writing" /\ cli'[t].app = a
        BY <1>1, <1>2, TypeParts DEF IInv
      <3> QED
        BY <1>2, <2>1, <3>1
    <2>2. CASE u # t
      <3>1. cli'[u] = cli[u] /\ temp'[u] = temp[u]
        BY <1>2, <2>2, TypeParts DEF IInv
      <3>2. /\ cli[u].at = "waiting" /\ ~cli[u].narrow => "write" \in cli[u].scopes
            /\ cli[u].at \in {"writing", "written"} => cli[u].app \in signedIn
            /\ cli[u].at = "written" => temp[u] = cli[u].app
        BY DEF IInv, SignInInv
      <3>3. signedIn \subseteq signedIn'
        BY <1>2
      <3> QED
        BY <3>1, <3>2, <3>3
    <2> QED
      BY <2>1, <2>2
  <1>10. ScopeInv'
    <2> SUFFICES ASSUME NEW b \in App, session'[b] = "live", b \notin narrowed'
                 PROVE  "write" \in granted'[b]
      BY DEF ScopeInv
    <2>1. CASE b = a
      BY <1>7, <2>1
    <2>2. CASE b # a
      <3>1. session[b] = "live" /\ b \notin narrowed
        BY <1>2, <2>2, TypeParts DEF IInv
      <3> QED
        BY <1>6, <3>1 DEF IInv, ScopeInv
    <2> QED
      BY <2>1, <2>2
  <1>11. CredInv'
    <2> SUFFICES ASSUME Serving
                 PROVE  server.cred = server.cfg.app
                        /\ (server.cred \notin narrowed' => "write" \in granted'[server.cred])
      BY <1>2 DEF CredInv, Serving
    <2>1. server.cred \in App
      BY TypeParts DEF Serving, IInv, ServerType, Down
    <2>2. server.cred \notin narrowed' => server.cred \notin narrowed
      BY <1>2
    <2> QED
      BY <1>6, <2>1, <2>2 DEF IInv, CredInv
  <1> QED
    BY <1>5, <1>8, <1>9, <1>10, <1>11 DEF IInv

\* What try_cached_token leaves is a credential of the config's app, from a
\* live session, or none.
LEMMA CachedToken ==
  ASSUME IInv
  PROVE  LET try == TryCachedToken(config) IN
         /\ try \in [cred : App \cup {NoApp}, error : Errors \ {"config_load"}]
         /\ try.error # "none" => try.cred = NoApp
         /\ try.cred # NoApp => /\ try.cred = config.app
                                /\ try.cred \in App /\ session[try.cred] = "live"
  <1>1. config.app \in App \cup {NoApp} /\ record \in App \cup {NoRecord, Torn}
        /\ session \in [App -> {"none", "live", "deadend"}]
    BY TypeParts DEF IInv, Config
  <1> QED
    BY <1>1 DEF TryCachedToken, Errors

\* Steps of the server that leave everything else alone.
LEMMA ServerStep ==
  ASSUME IInv, UNCHANGED <<disk, cloud, cli, history, upsets>>,
         told' \subseteq {"auth", "config", "plaintext"}, server' \in ServerType, CredInv'
  PROVE  IInv'
  <1>1. TypeOK'
    BY TypeParts DEF IInv, disk, cloud, history
  <1>2. RecordIsOfASignIn' /\ SignInInv' /\ ScopeInv'
    BY DEF IInv, RecordIsOfASignIn, SignInInv, ScopeInv, disk, cloud, history
  <1> QED
    BY <1>1, <1>2 DEF IInv

LEMMA StartServerStep == ASSUME IInv, StartServer PROVE IInv'
  <1>1. told' \subseteq {"auth", "config", "plaintext"}
    BY DEF StartServer, Tell, IInv, TypeOK
  <1>2. server' \in {Down, [at |-> "starting"]}
    BY DEF StartServer
  <1>3. server' \in ServerType /\ CredInv'
    BY <1>2 DEF ServerType, CredInv, Serving, Down
  <1> QED
    BY <1>1, <1>3, ServerStep DEF StartServer

LEMMA StopServerStep == ASSUME IInv, StopServer PROVE IInv'
  <1>1. server' \in ServerType /\ CredInv'
    BY DEF StopServer, ServerType, CredInv, Serving, Down
  <1> QED
    BY <1>1, ServerStep DEF StopServer, IInv, TypeOK

LEMMA LifespanStep == ASSUME IInv, Lifespan PROVE IInv'
  <1>1. UNCHANGED <<disk, cloud, cli, told, history, upsets>>
        /\ told' \subseteq {"auth", "config", "plaintext"}
    BY DEF Lifespan, IInv, TypeOK
  <1>2. CASE Loads(config)
    <2> DEFINE try == TryCachedToken(config)
    <2>1. /\ try \in [cred : App \cup {NoApp}, error : Errors \ {"config_load"}]
          /\ try.error # "none" => try.cred = NoApp
          /\ try.cred # NoApp => /\ try.cred = config.app
                                 /\ try.cred \in App /\ session[try.cred] = "live"
      BY CachedToken
    <2>2. server' = [at |-> "up", cfg |-> Settings(config), cred |-> try.cred, error |-> try.error]
      BY <1>2 DEF Lifespan
    <2> HIDE DEF try
    <2>3. Settings(config) \in [app : App \cup {NoApp}, readOnly : BOOLEAN]
          /\ Settings(config).app = config.app
      BY TypeParts DEF IInv, Settings, Config
    <2>4. server' \in ServerType
      BY <2>1, <2>2, <2>3 DEF ServerType, Errors
    <2>5. CredInv'
      BY <1>1, <2>1, <2>2, <2>3 DEF CredInv, Serving, IInv, ScopeInv, cloud, history
    <2> QED
      BY <1>1, <2>4, <2>5, ServerStep
  <1>3. CASE ~Loads(config)
    <2>1. server' = [at |-> "up", cfg |-> FailSafe, cred |-> NoApp, error |-> "config_load"]
      BY <1>3 DEF Lifespan
    <2>2. server' \in ServerType /\ CredInv'
      BY <2>1 DEF ServerType, FailSafe, CredInv, Serving, Errors
    <2> QED
      BY <1>1, <2>2, ServerStep
  <1> QED
    BY <1>2, <1>3

LEMMA StutterStep == ASSUME IInv, UNCHANGED vars PROVE IInv'
  BY ElsewhereStep DEF IInv, TypeOK, vars, disk

LEMMA NextInv == IInv /\ [Next]_vars => IInv'
  <1> SUFFICES ASSUME IInv, [Next]_vars PROVE IInv'
    OBVIOUS
  <1>1. CASE EditConfig \/ Status \/ MendConfig \/ MendStore
    BY <1>1, EditConfigStep, StatusStep, MendStep
  <1>2. ASSUME NEW a \in App, Revoke(a) PROVE IInv'
    BY <1>2, RevokeStep
  <1>3. ASSUME NEW t \in Terminal,
               \/ StartAuth(t) \/ Consent(t) \/ WriteTemp(t) \/ ReplaceRecord(t)
               \/ WriteFails(t) \/ Kill(t) \/ Logout(t)
        PROVE  IInv'
    BY <1>3, StartAuthStep, ConsentStep, WriteTempStep, ReplaceRecordStep, KillStep,
       LogoutStep
  <1>4. CASE StartServer \/ Lifespan \/ ToolCallRefused \/ StopServer
    BY <1>4, StartServerStep, LifespanStep, ToolCallStep, StopServerStep
  <1>5. CASE UNCHANGED vars
    BY <1>5, StutterStep
  <1> QED
    BY <1>1, <1>2, <1>3, <1>4, <1>5 DEF Next

\* IInv is an invariant of every installation.
THEOREM InductiveInvariant == Spec => []IInv
  BY InitInv, NextInv, PTL DEF Spec

\* Every variable keeps its type, and a server that could not load its config
\* has no credential and is read-only.
THEOREM TypeCorrect == Spec => []TypeOK
  <1>1. IInv => TypeOK
    BY DEF IInv
  <1> QED
    BY <1>1, InductiveInvariant, PTL

\* A server uses no session but that of the app its config names.
THEOREM OnlyItsOwnApp == Spec => []ServesOwnApp
  <1>1. IInv => ServesOwnApp
    BY DEF IInv, CredInv, ServesOwnApp
  <1> QED
    BY <1>1, InductiveInvariant, PTL

\* The auth record is whole and of an app that was signed in to, however the
\* writes of the terminals interleave and wherever they are killed or fail.
THEOREM RecordsAreWhole == Spec => []RecordIsOfASignIn
  <1>1. IInv => RecordIsOfASignIn
    BY DEF IInv
  <1> QED
    BY <1>1, InductiveInvariant, PTL

\* A server that lets write tools run may write, unless its app was narrowed.
THEOREM NobodyIsStranded == Spec => []WritesNotStranded
  <1>1. IInv => WritesNotStranded
    BY DEF IInv, CredInv, WritesNotStranded
  <1> QED
    BY <1>1, InductiveInvariant, PTL
=============================================================================
