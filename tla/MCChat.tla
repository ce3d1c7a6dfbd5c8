------------------------------- MODULE MCChat -------------------------------
(* The chat's turns, what it learns from them, its memory of a user and    *)
(* the store of its documents, side by side for TLC: a behaviour is one of *)
(* a single part, chosen at the start, while the others rest.              *)
EXTENDS ChatTurns, KnowledgeBase, UserMemory, VectorStore

VARIABLE part

vars == <<part, chatVars, knowledgeVars, memoryVars, storeVars>>

Init ==
    /\ part \in {"turns", "knowledge", "memory", "client", "library"}
    /\ ChatInit /\ KnowledgeInit /\ MemoryInit /\ StoreInit
    /\ part # "client" => dim = 1

Next ==
    \/ /\ part = "turns" /\ ChatNext
       /\ UNCHANGED <<part, knowledgeVars, memoryVars, storeVars>>
    \/ /\ part = "knowledge" /\ KnowledgeNext
       /\ UNCHANGED <<part, chatVars, memoryVars, storeVars>>
    \/ /\ part = "memory" /\ MemoryNext
       /\ UNCHANGED <<part, chatVars, knowledgeVars, storeVars>>
    \/ /\ part = "client" /\ ClientNext
       /\ UNCHANGED <<part, chatVars, knowledgeVars, memoryVars>>
    \/ /\ part = "library" /\ LibraryNext
       /\ UNCHANGED <<part, chatVars, knowledgeVars, memoryVars>>

Fairness ==
    \A t \in Turns :
        /\ WF_vars(part = "turns" /\ WorkerStep(t)
                   /\ UNCHANGED <<part, knowledgeVars, memoryVars, storeVars>>)
        /\ WF_vars(part = "turns" /\ (Deliver(t) \/ CloseLeft(t))
                   /\ UNCHANGED <<part, knowledgeVars, memoryVars, storeVars>>)

Spec == Init /\ [][Next]_vars /\ Fairness

\* Every variable of the parts keeps its type, and the store and the memory of
\* the user hold what they should.
StoresAreSound ==
    /\ ChatTypeOK /\ KnowledgeTypeOK /\ MemoryTypeOK /\ StoreTypeOK
    /\ KeepsTheLatest
    /\ StoreIsSound

\* A turn has one ending and one stored answer, and no stored text answers a question about the
\* live cluster.
TurnsAreSound == TurnIsSound /\ LiveIsNotStored
=============================================================================
