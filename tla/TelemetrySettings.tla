--------------------------- MODULE TelemetrySettings ---------------------------
(***************************************************************************)
(* The OpenObserve connection of /config/telemetry: the stored settings of   *)
(* telemetry/settings.ts and the routes of server.ts that write them, the    *)
(* resolution of one channel's endpoint and credential out of environment    *)
(* and file, and the page that says what they are (ui/telemetry.ts), twice   *)
(* written: by status() on the server, and by the script that previews what  *)
(* is being typed.  Values are numbers, 0 where a field is empty.            *)
(***************************************************************************)
EXTENDS Integers, Sequences

CONSTANTS TypedValues,      \* what an operator may type into a field
          EnvValue          \* what a variable of the environment holds

\* A value says which layer it is of: what is typed is told from what the
\* environment holds.
ASSUME TelemetrySettingsAssumption == EnvValue \in Nat \ {0} /\ TypedValues \subseteq Nat \ {0, EnvValue}

VARIABLES
  channel,     \* the channel looked at: "logs", or "traces", which metrics is like
  environment, \* process.env: the fields of the channel's and the generic names
  file,        \* telemetry.json: fields of the channel's entry and of the shared one
  damaged      \* the file is no JSON

settingsVars == <<channel, environment, file, damaged>>

Ingestion == {"email", "token"}
Methods == (SUBSET Ingestion) \cup {{"user"}}               \* what savedAuth can leave
Blank == [url |-> 0, base |-> 0, stream |-> 0, auth |-> {}, sharedAuth |-> {}]

\* readSettingsFile: what does not parse reads as empty.
Stored == IF damaged THEN Blank ELSE file

\* deriveChannelUrl: the logs channel needs a stream, the OTLP ones have none.
\* An endpoint is <<url>> or <<base, stream>>; <<>> is none.
Derive(base, stream) ==
  IF base = 0 \/ (channel = "logs" /\ stream = 0) THEN <<>>
  ELSE <<base, IF channel = "logs" THEN stream ELSE 0>>

Endpoint(url) == IF url = 0 THEN <<>> ELSE <<url>>
FirstOf(choices) ==
  LET set == {i \in DOMAIN choices : choices[i] # <<>>}
  IN IF set = {} THEN <<>> ELSE choices[CHOOSE i \in set : \A j \in set : i <= j]

\* resolveChannelUrl: where an export of the channel goes.
ResolvedUrl ==
  FirstOf(<<Endpoint(environment.url), Derive(environment.base, environment.stream),
            Endpoint(Stored.url), Derive(Stored.base, Stored.stream)>>)

\* resolveChannelAuth and envAuth: the first layer with a token or a user, whole.
Usable(auth) == auth \cap {"token", "user"} # {}
ResolvedAuth ==
  CASE "token" \in environment.auth -> environment.auth
    [] "token" \notin environment.auth /\ "user" \in environment.auth -> {"user"}
    [] ~Usable(environment.auth) /\ Usable(Stored.auth) -> Stored.auth
    [] ~Usable(environment.auth) /\ ~Usable(Stored.auth) /\ Usable(Stored.sharedAuth) -> Stored.sharedAuth
    [] OTHER -> {}

\* telemetryAuthHeader: basic authentication with the email and the token, else
\* with the user; a token alone sends nothing.
Header(auth) ==
  CASE Ingestion \subseteq auth -> "token"
    [] ~(Ingestion \subseteq auth) /\ "user" \in auth -> "user"
    [] OTHER -> "none"

-----------------------------------------------------------------------------
(* The page *)

\* Mutant: the stored endpoint of a channel is looked at first.
StoredFirst ==
  LET stored == Endpoint(Stored.url)
      ownEnv == IF stored = <<>> THEN Endpoint(environment.url) ELSE <<>>
      envDerived == IF stored # <<>> \/ ownEnv # <<>> THEN <<>> ELSE Derive(environment.base, environment.stream)
      derived == IF ownEnv # <<>> \/ envDerived # <<>> \/ stored # <<>> THEN <<>>
                 ELSE Derive(Stored.base, Stored.stream)
  IN [url    |-> FirstOf(<<ownEnv, envDerived, stored, derived>>),
      source |-> IF ownEnv # <<>> \/ envDerived # <<>> THEN "environment"
                 ELSE IF stored # <<>> \/ derived # <<>> THEN "stored" ELSE "none",
      shared |-> ownEnv = <<>> /\ (envDerived # <<>> \/ derived # <<>>)]

\* status(): a channel's endpoint, where it is from, and whether it is derived.
Status ==
  LET ownEnv == Endpoint(environment.url)
      envDerived == IF ownEnv # <<>> THEN <<>> ELSE Derive(environment.base, environment.stream)
      stored == Endpoint(Stored.url)
      derived == IF ownEnv # <<>> \/ envDerived # <<>> \/ stored # <<>> THEN <<>>
                 ELSE Derive(Stored.base, Stored.stream)
  IN [url    |-> FirstOf(<<ownEnv, envDerived, stored, derived>>),
      source |-> IF ownEnv # <<>> \/ envDerived # <<>> THEN "environment"
                 ELSE IF stored # <<>> \/ derived # <<>> THEN "stored" ELSE "none",
      shared |-> ownEnv = <<>> /\ (envDerived # <<>> \/ derived # <<>>)]

\* status() and sharedStatus(): the layer a credential is from.
StatusAuth ==
  IF Usable(environment.auth) THEN "environment"
  ELSE IF Usable(Stored.auth) \/ Usable(Stored.sharedAuth) THEN "stored" ELSE "none"

Or(typed, kept) == IF typed # 0 THEN typed ELSE kept

\* sharedStatus(): the base and the stream of the page, each from where it is set.
PageBase == Or(environment.base, Stored.base)
PageStream == Or(environment.stream, Stored.stream)

\* Mutant: what is typed is shown whatever the channel's own endpoint is.
PinsNothing == FALSE

\* effectiveEndpoints: a channel with an endpoint of its own is pinned.
Pinned == Status.source # "none" /\ ~Status.shared

\* refresh() of TELEMETRY_PAGE_JS: the endpoint shown while something is typed.
Preview(url, base, stream) ==
  FirstOf(<<Endpoint(url),
            IF Pinned THEN Status.url ELSE Derive(Or(base, PageBase), Or(stream, PageStream)),
            Status.url>>)

-----------------------------------------------------------------------------
(* The routes *)

\* Mutant: what is typed is added to what is stored.
AddsAuth(stored, typed) == stored \cup typed

\* savedAuth: what is typed of one method replaces the other; blank keeps all.
SavedAuth(stored, typed) ==
  IF typed \cap Ingestion # {} THEN (stored \cup typed) \cap Ingestion
  ELSE IF typed # {} THEN {"user"} ELSE stored

\* Every writer refuses a file it cannot parse.
Writes(to) == file' = to /\ ~damaged /\ UNCHANGED <<channel, environment, damaged>>

\* POST /config/telemetry/shared
SavesShared(base, stream, auth) ==
  Writes([file EXCEPT !.base = Or(base, @), !.stream = Or(stream, @), !.sharedAuth = SavedAuth(@, auth)])

\* POST /config/telemetry/:channel
SavesChannel(url, auth) == Writes([file EXCEPT !.url = Or(url, @), !.auth = SavedAuth(@, auth)])

\* POST .../shared/delete-auth, .../shared/delete and .../:channel/delete
ClearsAuth == Writes([file EXCEPT !.sharedAuth = {}])
ClearsShared == Writes([file EXCEPT !.base = 0, !.stream = 0, !.sharedAuth = {}])
ClearsChannel == Writes([file EXCEPT !.url = 0, !.auth = {}])

\* The file is edited by hand.
EditsByHand == damaged' = ~damaged /\ UNCHANGED <<channel, environment, file>>

-----------------------------------------------------------------------------
Typed == TypedValues \cup {0}

\* The environment sets addresses or credentials, which do not meet.
Environments ==
  LET set(x) == IF x THEN EnvValue ELSE 0
  IN {[url |-> set(u), base |-> set(b), stream |-> set(s), auth |-> {}] :
        u \in BOOLEAN, b \in BOOLEAN, s \in BOOLEAN}
     \cup {[url |-> 0, base |-> 0, stream |-> 0, auth |-> a] : a \in SUBSET (Ingestion \cup {"user"})}

SettingsInit ==
  channel \in {"logs", "traces"} /\ environment \in Environments /\ file = Blank /\ damaged = FALSE

SettingsNext ==
  \/ \E base \in Typed, stream \in Typed, auth \in Methods : SavesShared(base, stream, auth)
  \/ \E url \in Typed, auth \in Methods : SavesChannel(url, auth)
  \/ ClearsAuth \/ ClearsShared \/ ClearsChannel \/ EditsByHand

SettingsSpec == SettingsInit /\ [][SettingsNext]_settingsVars

-----------------------------------------------------------------------------
(* Properties *)

SettingsTypeOK ==
  /\ channel \in {"logs", "traces"} /\ environment \in Environments /\ damaged \in BOOLEAN
  /\ file \in [url : Typed, base : Typed, stream : Typed, auth : Methods, sharedAuth : Methods]

\* "so .env stays authoritative and the page's 'source' badge tells the operator
\* which layer is feeding each channel" (settings.ts:22-23): the resolution the
\* page spells out for itself is the one exports use, for every mix of fields in
\* the two layers; where the page knows of no credential none is sent, and the
\* layer it names is the one that is sent from.
PageSaysWhatIsSent ==
  /\ Status.url = ResolvedUrl
  /\ Status.source = "environment" => ResolvedUrl \in {<<EnvValue>>, <<EnvValue, EnvValue>>, <<EnvValue, 0>>}
  /\ Status.source = "stored" => ~damaged /\ EnvValue \notin {ResolvedUrl[i] : i \in DOMAIN ResolvedUrl}
  /\ Header(ResolvedAuth) # "none" => StatusAuth = IF Usable(environment.auth) THEN "environment" ELSE "stored"

\* "The URLs Maomao will call. They update as you type above." (ui/telemetry.ts:265):
\* where the environment sets no address, the endpoint the page's script shows
\* while one of its forms is typed into is the endpoint that exports go to once
\* that form is saved (its credential fields, which no endpoint depends on, blank).
PreviewIsWhatSaveGives ==
  [][file' # file /\ environment.url = 0 /\ environment.base = 0 /\ environment.stream = 0 =>
       /\ \A base \in Typed, stream \in Typed :
            SavesShared(base, stream, {}) => ResolvedUrl' = Preview(0, base, stream)
       /\ \A url \in Typed : SavesChannel(url, {}) => ResolvedUrl' = Preview(url, 0, 0)]_settingsVars

\* The same sentence of the page (ui/telemetry.ts:265), before anything is typed:
\* the endpoint shown is the one exports go to.
EndpointsAsCalled == Preview(0, 0, 0) = ResolvedUrl

\* "Resolution is env-over-stored per field" (settings.ts:21): a token and an
\* email that each have a value in some layer are sent, whichever those are.
EveryFieldFillsIn ==
  (Ingestion \subseteq environment.auth \cup Stored.auth) => Header(ResolvedAuth) # "none"
=============================================================================
