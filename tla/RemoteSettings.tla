--------------------------- MODULE RemoteSettings ---------------------------
(***************************************************************************)
(* apply_remote_settings of src/app/core/nacos.py: a YAML document may     *)
(* name a setting flat, in a nested section, and for mail in a third way,  *)
(* below "mail" or "spring.mail".  The settings here are one of each kind: *)
(* HOST is a bootstrap field, POSTGRES_HOST a required one.  The types of  *)
(* the document's parts and the validators of Settings are abstracted to   *)
(* a refusal that is possible at any time.                                 *)
(***************************************************************************)
EXTENDS Nothing, Naturals, FiniteSets, Functions

CONSTANTS
  Texts,     \* values of the settings that are not booleans
  MaxPlaces  \* bound on the entries of a document beside the required ones

ASSUME RemoteSettingsConstantsOK == MaxPlaces \in Nat

VARIABLES
  document,  \* the entries: a function from places to values
  settings,  \* the shared Settings; None is the value before
  verdict    \* "unread", "applied" or "refused"

remoteSettings == <<document, settings, verdict>>

Flags == {"SMTP_USE_TLS", "SMTP_USE_SSL"}
Mailed == {"SMTP_HOST", "SMTP_USERNAME"}
Nested == Mailed \cup Flags \cup {"SMTP_FROM_EMAIL", "POSTGRES_HOST"}
Bootstrap == {"HOST"}
Required == {"POSTGRES_HOST"}
SettingNames == Nested \cup Bootstrap

Switches == {"ssl.enable", "starttls.enable", "starttls.required"}
Places == ({"flat"} \X SettingNames) \cup ({"nested"} \X Nested)
          \cup ({"mail", "spring"} \X (Mailed \cup Switches))
ValuesAt(place) == IF place[2] \in Flags \cup Switches THEN BOOLEAN ELSE Texts

Few == {{}} \cup {Range(f) : f \in [1 .. MaxPlaces -> Places]}

Documents ==
  UNION {{d \in [places -> Texts \cup BOOLEAN] : \A p \in places : d[p] \in ValuesAt(p)} :
           places \in {few \cup required : few \in Few, required \in SUBSET ({"flat"} \X Required)}}

Unread == settings = [s \in SettingNames |-> None] /\ verdict = "unread"

RemoteSettingsInit == document \in Documents /\ Unread

-----------------------------------------------------------------------------
At(root) == Restrict(document, {p \in DOMAIN document : p[1] = root})
ByName(root) == [s \in {p[2] : p \in DOMAIN At(root)} |-> document[<<root, s>>]]

\* Two mappings name a setting with different values.
Differ(f, g) == \E s \in DOMAIN f \cap DOMAIN g : f[s] # g[s]
Join(f, g) == [s \in DOMAIN f \cup DOMAIN g |-> IF s \in DOMAIN g THEN g[s] ELSE f[s]]

\* _normalize_nested_settings.
Unnested == Join(ByName("flat"), ByName("nested"))

MailRoot == IF ByName("spring") # <<>> THEN "spring" ELSE "mail"
Mail == ByName(MailRoot)
On(switch) == switch \in DOMAIN Mail /\ Mail[switch]
Off(switch) == switch \in DOMAIN Mail /\ ~Mail[switch]

\* _mail_transport_settings: STARTTLS that is required is enabled, and what is not named is off.
WrongTransport ==
  \/ On("starttls.required") /\ Off("starttls.enable")
  \/ On("ssl.enable") /\ (On("starttls.enable") \/ On("starttls.required"))

StartTls == On("starttls.enable") \/ On("starttls.required")
Transport ==
  IF StartTls \/ Off("starttls.enable") \/ On("ssl.enable") \/ Off("ssl.enable")
  THEN [s \in Flags |-> IF s = "SMTP_USE_TLS" THEN StartTls ELSE On("ssl.enable")]
  ELSE <<>>

\* _normalize_mail_settings: the sender is the account, unless it is named.
Mapped == Join(Restrict(Mail, Mailed \cap DOMAIN Mail), Transport)
Sender == IF "SMTP_USERNAME" \in DOMAIN Mail /\ "SMTP_FROM_EMAIL" \notin DOMAIN Unnested
          THEN [s \in {"SMTP_FROM_EMAIL"} |-> Mail["SMTP_USERNAME"]] ELSE <<>>
Payload == Join(Join(Unnested, Mapped), Sender)

NestedConflictOnly == Differ(ByName("flat"), ByName("nested")) \/ WrongTransport

Conflict ==
  \/ Differ(ByName("flat"), ByName("nested"))
  \/ ByName("mail") # <<>> /\ ByName("spring") # <<>>
  \/ WrongTransport
  \/ Differ(Unnested, Mapped)

Apply ==
  /\ verdict = "unread"
  /\ ~Conflict
  /\ Required \subseteq DOMAIN Payload /\ DOMAIN Payload \subseteq SettingNames \ Bootstrap
  /\ settings' = Join(settings, Payload) /\ verdict' = "applied"
  /\ UNCHANGED document

\* Everything else is an error, and so is a value that Settings does not take; the start fails.
Refuse ==
  /\ verdict = "unread" /\ verdict' = "refused"
  /\ UNCHANGED <<document, settings>>

RemoteSettingsNext == Apply \/ Refuse

RemoteSettingsSpec == RemoteSettingsInit /\ [][RemoteSettingsNext]_remoteSettings

-----------------------------------------------------------------------------
(* Properties. *)

\* Means(place) is the set of settings a place speaks of and the value it gives them.
Means(place) ==
  CASE place[2] = "ssl.enable" -> {"SMTP_USE_SSL"}
    [] place[2] = "starttls.enable" -> {"SMTP_USE_TLS"}
    [] place[2] = "starttls.required" -> IF document[place] THEN {"SMTP_USE_TLS"} ELSE {}
    [] OTHER -> {place[2]}

\* A document that is applied was obeyed at every place where it speaks of a setting, however many
\* of them speak of the same one, and an encryption that mail asks for has the other one off;
\* bootstrap settings, and all settings after a refusal, are as they were (nacos.py:268, 334, 369,
\* 410).
OneValuePerSetting ==
  /\ verdict = "applied" =>
       /\ \A place \in DOMAIN document : \A s \in Means(place) : settings[s] = document[place]
       /\ On("ssl.enable") => settings["SMTP_USE_TLS"] = FALSE
       /\ StartTls => settings["SMTP_USE_SSL"] = FALSE
       /\ settings["HOST"] = None
  /\ verdict = "refused" => \A s \in SettingNames : settings[s] = None

=============================================================================
