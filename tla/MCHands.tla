------------------------------ MODULE MCHands ------------------------------
(* Instances of Hands for TLC: two profiles, one of them with allow_all, and *)
(* four contents of tools.json that put each tool under each permission.     *)
EXTENDS Hands

MCProfile == {"ann", "bob"}
MCAllowAll == {"bob"}

AllCalls == Call

Perms(n, s, i, k, a) ==
  [tool \in Tool |-> CASE tool = "notify" -> n
                       [] tool = "shell" -> s
                       [] tool = "software_install" -> i
                       [] tool = "softwake" -> k
                       [] tool = "agent_message" -> a]

MCSettings ==
  { Perms("Ask", "Ask", "Ask", "AlwaysAllow", "Ask"),
    Perms("AlwaysAllow", "AlwaysAllow", "Ask", "Ask", "AlwaysAllow"),
    Perms("Ask", "AlwaysAllow", "Deny", "AlwaysAllow", "Deny"),
    Perms("Deny", "Deny", "AlwaysAllow", "Deny", "Ask") }

\* Every call but the switch of the active profile.
InPlace == Call \ {"softwake_set_profile"}
=============================================================================
