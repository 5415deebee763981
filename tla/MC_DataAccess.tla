--------------------------- MODULE MC_DataAccess ----------------------------
EXTENDS DataAccess, MC_Mutations

\* No calls while a behaviour is about another part.
MCAccessWorkloads == MCWorkloads \cup {[args |-> {}, edits |-> 0, audit |-> TRUE]}
=============================================================================
