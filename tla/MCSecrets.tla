----------------------------- MODULE MCSecrets -----------------------------
(* Instances of Secrets: messages and meet as apps/*.yml declare them. *)
EXTENDS Secrets, TLC

\* Every coupling at once, two of them with each provider: the MDA secret of pymta and
\* the address a proxy issues, the adopted key of yprovider and the shared one of
\* livekit.
EveryKind   == "salt" :> "private" @@ "mda" :> "mirrored" @@ "proxy" :> "issued"
                 @@ "collab" :> "mirrored" @@ "api" :> "shared"
EveryHolder == "salt" :> "messages" @@ "mda" :> "pymta" @@ "proxy" :> "pymta"
                 @@ "collab" :> "yprovider" @@ "api" :> "yprovider"

MeetKind   == "key" :> "private" @@ "newkey" :> "private" @@ "api" :> "shared"
MeetHolder == "key" :> "meet" @@ "newkey" :> "meet" @@ "api" :> "livekit"
============================================================================
