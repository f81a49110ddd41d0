-------------------------- MODULE MC_KeyValueStore --------------------------
(* Small stores for TLC: two domains of one or two keys.                  *)
EXTENDS KeyValueStore

MCDomains == {0, 1}
MCDomainsOne == {0}
MCKeyIdsOne == {0}
MCKeyIdsTwo == {0, 1}

=============================================================================
