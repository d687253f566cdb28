-------------------------- MODULE MCZacariasDevice --------------------------
(* Small instances of the driver for TLC. *)
EXTENDS ZacariasStore, TLC

CONSTANTS u1, f1, f2, s1, s2, a1, a2, w1, w2

OneUserFile == u1 :> {f1}
TwoFiles    == u1 :> {f1, f2}

\* a1 is a proper prefix of a2.
APrefix  == {<<a1, a1>>, <<a2, a2>>, <<a1, a2>>}
OneAlias == {<<a1, a1>>}
NoPrefix == {<<a1, a1>>, <<a2, a2>>}

\* No secret is special, and no property of these runs names one.
AnySecret == Permutations(Secrets)

NoFaults == {NoFault}

At(at, how, also) == [at |-> at, how |-> how, also |-> also]

\* A file cannot be read or written, or the power fails in the middle of a write.
FileFaults == {NoFault, At("read", "first", {}), At("reload", "first", {}),
               At("write", "first", {}), At("write", "torn", {}),
               At("power", "first", {})}

\* One call of a handler finds no memory, in each way it can.
MemoryFaults ==
    {At(at, "first", {}) : at \in Calls \ {"none", "read", "reload", "write", "power"}}
    \cup {At("validate", "midway", {}), At("validate", "wipe", {}), At("validate", "late", {}),
          At("encrypt", "wipe", {}), At("rekey", "midway", {}), At("rekey", "wipe", {})}

\* A call finds no memory and so does the recovery in the epilogue of add or del.
RecoveryFaults ==
    {At("detach", how, {"reencrypt"}) : how \in {"first", "wipe"}}
    \cup {At("none", "first", {r}) : r \in Recovery}
    \cup {At("insert", "midway", {r}) : r \in {"reencrypt", "restore"}}

OutOfMemory == {NoFault} \cup MemoryFaults \cup RecoveryFaults

EveryFault == OutOfMemory \cup FileFaults

\* Every fault but two.  After a failing reframing in the epilogue of add the detached text
\* stays where it is, and the next request to be refused with EINVAL would encrypt it as it
\* stands.  After a file that cannot be opened the profile of a failed --init is there with
\* a key of its own, and writes the file as soon as it can.
AllFaults ==
    {f \in EveryFault : "reshuffle" \notin f.also /\ f # At("write", "first", {})}

\* --init finds no memory for its first entry or its frame, the profile being on the list.
InitFaults == {NoFault, At("insert", "first", {}), At("stub", "first", {})}

\* A call fails before the handler has changed anything that it would not put back.
EarlyFaults ==
    {NoFault, At("validate", "late", {})}
    \cup {At(at, "first", {}) : at \in {"alloc", "register", "read", "validate", "decrypt",
                                       "detach", "generate"}}
=============================================================================
