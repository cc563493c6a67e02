----------------------------- MODULE Allowlist ------------------------------
(***************************************************************************)
(* The hosts a credential may be sent to (src/internal/allowlist): the     *)
(* policy that every production constructor of a client uses.              *)
(***************************************************************************)
EXTENDS SequencesExt

CONSTANTS Scheme,              \* of each URL
          Host,                \* of each URL, the labels of its host, in lower case
          Loopback,            \* the hosts that are loopback addresses
          DevLoopbackEnabled   \* a developer build

AllowedRoot == <<"weaviate", "cloud">>

IsPermittedHost(h) == IsSuffix(AllowedRoot, h)

\* A URL that cannot be parsed has no scheme.
CheckStrict(u) == \/ DevLoopbackEnabled /\ Host[u] \in Loopback
                  \/ Scheme[u] = "https" /\ IsPermittedHost(Host[u])

=============================================================================
