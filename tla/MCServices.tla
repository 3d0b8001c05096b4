----------------------------- MODULE MCServices -----------------------------
(***************************************************************************)
(* Small instances of the modules that share no state: each behaviour is   *)
(* one of a single part, chosen in the beginning, while the others rest in *)
(* an initial state.                                                       *)
(***************************************************************************)
EXTENDS ChatThreads, VideoDialogue, VoiceSessions, EmailLogin, Uploads, Lifecycle, RemoteSettings

VARIABLE part

Parts == {"threads", "video", "sessions", "login", "uploads", "lifecycle", "settings"}

ServicesInit ==
  /\ part \in Parts
  /\ IF part = "threads" THEN TRUE ELSE rows = <<>>
  /\ IF part = "lifecycle" THEN TRUE ELSE enabled = {}
  /\ ThreadsInit /\ VideoDialogueInit /\ VoiceSessionsInit /\ EmailLoginInit
  /\ UploadsInit /\ LifecycleInit /\ Unread
  /\ IF part = "settings" THEN document \in Documents ELSE document = <<>>

Rest(p) ==
  /\ p # "threads" => UNCHANGED threadVars
  /\ p # "video" => UNCHANGED videoDialogue
  /\ p # "sessions" => UNCHANGED voiceSessions
  /\ p # "login" => UNCHANGED emailLogin
  /\ p # "uploads" => UNCHANGED uploads
  /\ p # "lifecycle" => UNCHANGED lifecycle
  /\ p # "settings" => UNCHANGED remoteSettings
  /\ UNCHANGED part

ServicesNext ==
  \/ part = "threads" /\ ThreadsNext /\ Rest(part)
  \/ part = "video" /\ VideoDialogueNext /\ Rest(part)
  \/ part = "sessions" /\ VoiceSessionsNext /\ Rest(part)
  \/ part = "login" /\ EmailLoginNext /\ Rest(part)
  \/ part = "uploads" /\ UploadsNext /\ Rest(part)
  \/ part = "lifecycle" /\ LifecycleNext /\ Rest(part)
  \/ part = "settings" /\ RemoteSettingsNext /\ Rest(part)

ServicesSpec ==
  ServicesInit /\ [][ServicesNext]_<<part, threadVars, videoDialogue, voiceSessions, emailLogin, uploads, lifecycle,
                                     remoteSettings>>

Interchangeable == Permutations(Connections) \cup Permutations(Servers)

=============================================================================
