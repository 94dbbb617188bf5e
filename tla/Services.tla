------------------------------ MODULE Services ------------------------------
(***************************************************************************)
(* The HTTP services together: rooms and their members, presence, the      *)
(* administrators, search and statistics, logins, files.  They share the   *)
(* goroutines that serve requests, the log of the administrators' actions  *)
(* and, those that extend each other, their tables.  What a behaviour is   *)
(* about, and how many requests it has, is its load's to say.              *)
(***************************************************************************)
EXTENDS Views, Login, Files

chatVars == <<roomVars, presenceVars, governanceVars, viewVars>>

vars == <<serving, chatVars, loginVars, fileVars>>

Init ==
    /\ RequestsInit
    /\ RoomsInit /\ PresenceInit /\ GovernanceInit /\ ViewsInit
    /\ LoginInit
    /\ FilesInit

RoomsOnly == RoomsNext /\ UNCHANGED <<presenceVars, governanceVars, viewVars, loginVars, fileVars>>

PresenceOnly == PresenceNext /\ UNCHANGED <<governanceVars, viewVars, loginVars, fileVars>>

GovernanceOnly == GovernanceNext /\ UNCHANGED <<viewVars, loginVars, fileVars>>

ViewsOnly == ViewsNext /\ UNCHANGED <<loginVars, fileVars>>

LoginOnly == LoginNext /\ UNCHANGED <<chatVars, fileVars>>

FilesOnly == FilesNext /\ UNCHANGED <<chatVars, loginVars>>

Next == RoomsOnly \/ PresenceOnly \/ GovernanceOnly \/ ViewsOnly \/ LoginOnly \/ FilesOnly

Spec == Init /\ [][Next]_vars

-----------------------------------------------------------------------------
(* Every table and every request is of its type.                           *)
ServicesTypeOK ==
    /\ served \in 0..load.max /\ faults \in 0..MaxFaults
    /\ RoomsTypeOK /\ PresenceTypeOK /\ GovernanceTypeOK /\ StatisticsTypeOK /\ ViewsTypeOK
    /\ LoginTypeOK
    /\ FilesTypeOK

=============================================================================
