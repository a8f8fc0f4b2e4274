------------------------------- MODULE Session -------------------------------
(***************************************************************************)
(* Signing in: config.json and the auth record on disk, the terminals that *)
(* run `outlook-mcp auth`, `status` and `logout`, the server that an MCP   *)
(* client starts and stops, and the operator who edits the config and does *)
(* what the messages say.                                                  *)
(*                                                                         *)
(* A sign-in waits for a human in a browser, up to a quarter of an hour:   *)
(* meanwhile the config changes, another terminal signs in or out, and the *)
(* server starts.  Any command can be killed.  An instance serves one      *)
(* account, so a session at Microsoft is one of an app.                    *)
(***************************************************************************)
EXTENDS Integers, FiniteSets

CONSTANTS
  App,             \* app registrations
  Terminal,        \* shells that run the command line
  MaxUpsets        \* bound: edits of the config, sign-outs, sessions that
                   \* Microsoft ends and commands that are killed, together

ASSUME SessionAssumption ==
  /\ IsFiniteSet(App) /\ IsFiniteSet(Terminal)
  /\ MaxUpsets \in Nat

VARIABLES
  config,     \* config.json
  encrypted,  \* the host has an encrypted store for tokens
  record,     \* auth_record.json: the app it was saved for
  temp,       \* temp[t]: the temporary file of the last command in terminal t
  granted,    \* at Microsoft: granted[a], what the account has consented to for a
  session,    \* session[a]: whether the cached token of a can be refreshed
  cli,        \* cli[t]: the sign-in that runs in terminal t
  server,     \* the server's config, credential and startup_error
  told,       \* what the operator has been told to do and has not done
  signedIn,   \* history: the apps that were signed in to
  narrowed,   \* history: the ones signed in to under read_only_consent
  upsets

disk     == <<config, encrypted, record, temp>>
cloud    == <<granted, session>>
history  == <<signedIn, narrowed>>
vars     == <<disk, cloud, cli, server, told, history, upsets>>

NoApp    == "no app"
NoRecord == "no record"
NoFile   == "no file"
Torn     == "torn file"

\* What load_config makes of the file.  valid stands for a file that is there
\* to be read, is no symlink, is text and has values of the right types.
Config == [app : App \cup {NoApp}, readOnly : BOOLEAN, readOnlyConsent : BOOLEAN,
           plaintext : BOOLEAN, valid : BOOLEAN]

\* _read_only_consent_needs_read_only.
Loads(c) == c.valid /\ (c.readOnlyConsent => c.readOnly)

\* "Fail-safe substitute: writes stay refused until the real config loads again".
FailSafe == [app |-> NoApp, readOnly |-> TRUE]

Settings(c) == [app |-> c.app, readOnly |-> c.readOnly]

ScopesByReadOnly(c) == IF c.readOnly THEN {"read"} ELSE {"read", "write"}
ScopesDefault(c)    == {}

\* get_scopes.
Scopes(c) == IF c.readOnlyConsent THEN {"read"} ELSE {"read", "write"}

\* _make_credential, or the cache it builds at first use, refuses cleartext.
Unencrypted(c) == ~encrypted /\ ~c.plaintext

Idle   == [at |-> "idle"]
Down   == [at |-> "down"]
Errors == {"none", "mismatch", "stale_consent", "unencrypted", "config_load"}

\* The action of the error that every tool call carries: the startup error's,
\* or AuthRequiredError's.
Remedy(error) ==
  CASE error = "config_load" -> "config"
    [] error = "unencrypted" -> "plaintext"
    [] OTHER                 -> "auth"

-----------------------------------------------------------------------------
\* A new installation, or one upgraded from a release that signed in with
\* .default and may have left a session that can grant nothing.
Init ==
  /\ config = [app |-> NoApp, readOnly |-> FALSE, readOnlyConsent |-> FALSE,
               plaintext |-> FALSE, valid |-> TRUE]
  /\ encrypted \in BOOLEAN
  /\ record \in App \cup {NoRecord}
  /\ temp = [t \in Terminal |-> NoFile]
  /\ granted = [a \in App |-> {}]
  /\ session \in [App -> {"none", "deadend"}]
  /\ \A a \in App : session[a] = "deadend" => record = a
  /\ cli = [t \in Terminal |-> Idle]
  /\ server = Down
  /\ told = {}
  /\ signedIn = {a \in App : record = a} /\ narrowed = {}
  /\ upsets = 0

Tell(what)   == told' = told \cup {what}
Heeded(what) == told' = told \ {what}

Upset == upsets < MaxUpsets /\ upsets' = upsets + 1

\* The operator changes a setting, or breaks the file.
EditConfig ==
  /\ Upset
  /\ \/ \E a \in App : config' = [config EXCEPT !.app = a]
     \/ \E r, n \in BOOLEAN : config' = [config EXCEPT !.readOnly = r, !.readOnlyConsent = n]
     \/ config' = [config EXCEPT !.valid = FALSE]
  /\ config' # config
  /\ UNCHANGED <<encrypted, record, temp, cloud, cli, server, told, history>>

\* Microsoft ends a session: a token expires, or is revoked (AADSTS70000).
Revoke(a) ==
  /\ Upset
  /\ session[a] = "live"
  /\ \E s \in {"none", "deadend"} : session' = [session EXCEPT ![a] = s]
  /\ UNCHANGED <<disk, granted, cli, server, told, history>>

-----------------------------------------------------------------------------
\* cmd_auth up to the device code: the config is read once, here.
StartAuth(t) ==
  /\ cli[t] = Idle
  /\ IF ~Loads(config) \/ config.app = NoApp
     THEN told' = (told \ {"auth"}) \cup {"config"} /\ UNCHANGED cli
     ELSE IF Unencrypted(config)
     THEN told' = (told \ {"auth"}) \cup {"plaintext"} /\ UNCHANGED cli
     ELSE /\ cli' = [cli EXCEPT ![t] = [at |-> "waiting", app |-> config.app,
                                        scopes |-> Scopes(config),
                                        narrow |-> config.readOnlyConsent]]
          /\ Heeded("auth")
  /\ UNCHANGED <<disk, cloud, server, history, upsets>>

TempFileShared(t) == CHOOSE u \in Terminal : TRUE

\* mkstemp: a name that no other file has.
TempFile(t) == t

\* The human signs in and consents.  Microsoft remembers consent per app, and
\* a session that has none can never be refreshed.  Then _save_auth_record, by
\* atomic_write, makes a temporary file, with nothing in it yet;
Consent(t) ==
  LET a == cli[t].app IN
  /\ cli[t].at = "waiting"
  /\ granted' = [granted EXCEPT ![a] = @ \cup cli[t].scopes]
  /\ session' = [session EXCEPT ![a] = IF granted'[a] = {} THEN "deadend" ELSE "live"]
  /\ cli' = [cli EXCEPT ![t] = [at |-> "writing", app |-> a]]
  /\ temp' = [temp EXCEPT ![TempFile(t)] = Torn]
  /\ signedIn' = signedIn \cup {a}
  /\ narrowed' = IF cli[t].narrow THEN narrowed \cup {a} ELSE narrowed
  /\ UNCHANGED <<config, encrypted, record, server, told, upsets>>

\* it is written and synced;
WriteTemp(t) ==
  /\ cli[t].at = "writing"
  /\ temp' = [temp EXCEPT ![TempFile(t)] = cli[t].app]
  /\ cli' = [cli EXCEPT ![t].at = "written"]
  /\ UNCHANGED <<config, encrypted, record, cloud, server, told, history, upsets>>

\* and it is put in the place of the record.
ReplaceRecord(t) ==
  /\ cli[t].at = "written"
  /\ record' = temp[TempFile(t)]
  /\ temp' = [temp EXCEPT ![TempFile(t)] = NoFile]
  /\ cli' = [cli EXCEPT ![t] = Idle]
  /\ UNCHANGED <<config, encrypted, cloud, server, told, history, upsets>>

\* A write, sync, chmod or replace that fails: the temporary file is removed,
\* and the command ends with the error.
WriteFails(t) ==
  /\ Upset
  /\ cli[t].at \in {"writing", "written"}
  /\ temp' = [temp EXCEPT ![TempFile(t)] = NoFile]
  /\ cli' = [cli EXCEPT ![t] = Idle]
  /\ UNCHANGED <<config, encrypted, record, cloud, server, told, history>>

\* The command dies wherever it is, killed, timed out, declined or refused at
\* Microsoft, and leaves the temporary file as it is.
Kill(t) ==
  /\ Upset
  /\ cli[t] # Idle
  /\ cli' = [cli EXCEPT ![t] = Idle]
  /\ UNCHANGED <<disk, cloud, server, told, history>>

\* cmd_logout.  The token cache stays.
Logout(t) ==
  /\ Upset
  /\ cli[t] = Idle
  /\ IF Loads(config) THEN record' = NoRecord /\ UNCHANGED told
                      ELSE Tell("config") /\ UNCHANGED record
  /\ UNCHANGED <<config, encrypted, temp, cloud, cli, server, history>>

-----------------------------------------------------------------------------
TryCachedTokenOfAnyApp(c) ==
  IF c.app = NoApp \/ record \in {NoRecord, Torn} THEN [cred |-> NoApp, error |-> "none"]
  ELSE IF Unencrypted(c) THEN [cred |-> NoApp, error |-> "unencrypted"]
  ELSE IF session[record] = "deadend" THEN [cred |-> NoApp, error |-> "stale_consent"]
  ELSE IF session[record] = "none" THEN [cred |-> NoApp, error |-> "none"]
  ELSE [cred |-> record, error |-> "none"]

\* try_cached_token: the credential it leaves, and the startup error.  A
\* credential made from a record is one of the record's app, whatever the
\* config says.
TryCachedToken(c) ==
  IF c.app = NoApp \/ record \in {NoRecord, Torn} THEN [cred |-> NoApp, error |-> "none"]
  ELSE IF record # c.app THEN [cred |-> NoApp, error |-> "mismatch"]
  ELSE IF Unencrypted(c) THEN [cred |-> NoApp, error |-> "unencrypted"]
  ELSE IF session[record] = "deadend" THEN [cred |-> NoApp, error |-> "stale_consent"]
  ELSE IF session[record] = "none" THEN [cred |-> NoApp, error |-> "none"]
  ELSE [cred |-> record, error |-> "none"]

\* cmd_status, when it has something to say: what a server started now would.
Status ==
  /\ IF ~Loads(config) \/ config.app = NoApp THEN Tell("config")
     ELSE LET try == TryCachedToken(config) IN
          try.cred = NoApp /\ Tell(Remedy(try.error))
  /\ UNCHANGED <<disk, cloud, cli, server, history, upsets>>

\* main: a config that does not load ends the process before the transport.
StartServer ==
  /\ server = Down
  /\ IF Loads(config) THEN server' = [at |-> "starting"] /\ UNCHANGED told
                      ELSE Tell("config") /\ UNCHANGED server
  /\ UNCHANGED <<disk, cloud, cli, history, upsets>>

\* lifespan reads the config again, and the record and the session after it.
Lifespan ==
  /\ server = [at |-> "starting"]
  /\ server' = IF Loads(config)
               THEN LET try == TryCachedToken(config) IN
                    [at |-> "up", cfg |-> Settings(config), cred |-> try.cred, error |-> try.error]
               ELSE [at |-> "up", cfg |-> FailSafe, cred |-> NoApp, error |-> "config_load"]
  /\ UNCHANGED <<disk, cloud, cli, told, history, upsets>>

\* A tool call without a credential: _get_graph_client raises.
ToolCallRefused ==
  /\ server.at = "up" /\ server.cred = NoApp
  /\ Tell(Remedy(server.error))
  /\ UNCHANGED <<disk, cloud, cli, server, history, upsets>>

\* The client ends its conversation, and the server with it.
StopServer ==
  /\ server.at = "up"
  /\ server' = Down
  /\ UNCHANGED <<disk, cloud, cli, told, history, upsets>>

-----------------------------------------------------------------------------
\* The operator signs in when told to, mends the config, or sees to the store.
RunAuth == "auth" \in told /\ \E t \in Terminal : StartAuth(t)

\* config_repair_lines and the validator name what is wrong with which key.
MendConfig ==
  /\ "config" \in told /\ Heeded("config")
  /\ \E a \in App :
       /\ config.app \in {a, NoApp}
       /\ \/ config' = [config EXCEPT !.app = a, !.valid = TRUE, !.readOnlyConsent = @ /\ config.readOnly]
          \/ config' = [config EXCEPT !.app = a, !.valid = TRUE, !.readOnly = @ \/ config.readOnlyConsent]
  /\ UNCHANGED <<encrypted, record, temp, cloud, cli, server, history, upsets>>

MendStore ==
  /\ "plaintext" \in told /\ Heeded("plaintext")
  /\ \/ config' = [config EXCEPT !.plaintext = TRUE] /\ UNCHANGED encrypted
     \/ encrypted' = TRUE /\ UNCHANGED config
  /\ UNCHANGED <<record, temp, cloud, cli, server, history, upsets>>

Next ==
  \/ EditConfig \/ Status \/ \E a \in App : Revoke(a)
  \/ \E t \in Terminal : StartAuth(t) \/ Consent(t) \/ WriteTemp(t)
                           \/ ReplaceRecord(t) \/ WriteFails(t) \/ Kill(t) \/ Logout(t)
  \/ StartServer \/ Lifespan \/ ToolCallRefused \/ StopServer
  \/ MendConfig \/ MendStore

\* Clients start the server and call its tools; the operator follows what is
\* said, and who signs in finishes, if the command lives.  Nothing makes a
\* client end the server it has started.
Spec ==
  /\ Init /\ [][Next]_vars
  /\ WF_vars(StartServer) /\ WF_vars(Lifespan) /\ SF_vars(ToolCallRefused)
  /\ WF_vars(RunAuth) /\ WF_vars(MendConfig) /\ WF_vars(MendStore)
  /\ \A t \in Terminal : WF_vars(Consent(t) \/ WriteTemp(t) \/ ReplaceRecord(t))

-----------------------------------------------------------------------------
\* Types; a server that could not load its config has no credential and would
\* let no write through.
TypeOK ==
  /\ config \in Config /\ encrypted \in BOOLEAN /\ record \in App \cup {NoRecord, Torn}
  /\ temp \in [Terminal -> App \cup {NoFile, Torn}]
  /\ granted \in [App -> SUBSET {"read", "write"}]
  /\ session \in [App -> {"none", "live", "deadend"}]
  /\ cli \in [Terminal -> {Idle}
                 \cup [at : {"waiting"}, app : App, scopes : SUBSET {"read", "write"}, narrow : BOOLEAN]
                 \cup [at : {"writing", "written"}, app : App]]
  /\ \/ server \in {Down, [at |-> "starting"]}
     \/ /\ server \in [at : {"up"}, cfg : [app : App \cup {NoApp}, readOnly : BOOLEAN],
                       cred : App \cup {NoApp}, error : Errors]
        /\ server.error # "none" => server.cred = NoApp
        /\ server.error = "config_load" => server.cfg.readOnly
  /\ told \subseteq {"auth", "config", "plaintext"}
  /\ signedIn \subseteq App /\ narrowed \subseteq App
  /\ upsets \in 0..MaxUpsets

Serving == server.at = "up" /\ server.cred # NoApp

\* A server never uses the session of an app other than the one in the config
\* it was started with, whoever signed in to what in the meantime: a changed
\* client_id is "caught here, or the old app's session ... goes on being used
\* under the new id's name".
ServesOwnApp == Serving => server.cred = server.cfg.app

\* The auth record is always a whole one, of an app somebody signed in to,
\* however the steps of two sign-ins that write it interleave and wherever one
\* of them is killed or fails: there is no "half-written file for anything that
\* reads it concurrently".
RecordIsOfASignIn == record \in signedIn \cup {NoRecord}

\* A server that lets write tools run has a session that may write, unless its
\* app was signed in to under read_only_consent: flipping read_only strands
\* nobody ("a consent narrowed by that flag could never be widened after the
\* config flips").
WritesNotStranded ==
  Serving /\ ~server.cfg.readOnly /\ server.cred \notin narrowed
    => "write" \in granted[server.cred]

\* Doing what the errors say, and starting the server again, ends in a server
\* that serves: whatever was edited, revoked or killed before, and whatever the
\* installation was upgraded from.  The restart is a premise: a server reads the
\* record when it starts and never again, so one that runs while the operator
\* signs in keeps refusing, although auth says that it "will use this cached
\* token automatically".
RemedyWorks == []<>(server = Down) => []<>(Serving /\ session[server.cred] = "live")
=============================================================================
