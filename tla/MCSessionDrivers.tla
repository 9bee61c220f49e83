-------------------------- MODULE MCSessionDrivers --------------------------
(* Instances of SessionDrivers for TLC. *)
EXTENDS SessionDrivers, TLC

CONSTANTS s1, s2, a1, a2, k1, m1, q1

(* The threads of one kind are interchangeable, and an answer before any   *)
(* send is refused whatever the session does.  A Codex or OpenCode session *)
(* stores a selection for the next send and tells nobody: none is made.    *)
MCOrder ==
    {<<k, p[1], p[2]>> : k \in Kinds, p \in {<<s1, s2>>, <<a1, a2>>, <<s1, a1>>, <<s1, m1>>}}
        \cup ({"codex", "opencode"} \X {m1} \X {m1})

(* The agent may keep a Codex sender and an ACP selection waiting; a Claude *)
(* or OpenCode sender gives up on a driver slow to take its message.        *)
MCExpire ==
    ({"codex"} \X {s1, s2, None}) \cup ({"acp"} \X {m1, None})
        \cup ({"claude", "opencode"} \X {s1})

(* A Claude session needs a second line for a request to be withdrawn.     *)
MCLines == "claude" :> 2 @@ "codex" :> 1 @@ "acp" :> 1 @@ "opencode" :> 1
=============================================================================
