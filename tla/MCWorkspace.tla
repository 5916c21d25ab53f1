---------------------------- MODULE MCWorkspace ----------------------------
(* The working room over the runs of specs, the maintenance windows, the skill
   gate and the consolidation of memory share no state: a behaviour is one of
   one of them. *)
EXTENDS CodeRoom, Maintenance, SkillApprovals, Consolidation, TLC

VARIABLE part

Symmetry == Permutations(Specs) \cup Permutations(Runs)

WorkspaceVars == <<allVars, maintenanceVars, approvalVars, consolidationVars, part>>

WorkspaceInit ==
  /\ part \in {"room", "maintenance", "approvals", "memory"}
  /\ RoomInit
  /\ part # "room" =>
       room = NoRoom /\ \A s \in Specs : file[s].status = "absent"
  /\ MaintenanceInit
  /\ ApprovalsInit
  /\ ConsolidationInit

\* Bounds: a crash counts as an order, and a behaviour has three runs of one
\* spec, or two of which one is repaired, or two of different specs.
RoomBound ==
  LET begun == {r \in Runs : run[r].pc # "none"}
      repaired == {r \in Runs : run[r].attempt > 1}
  IN /\ orders + crashes <= MaxOrders
     /\ Cardinality(begun) + Cardinality(repaired)
          + Cardinality({run[r].spec : r \in begun}) <= 4

\* Bound: a crash counts as a morning.
MorningBound ==
  restarts + Cardinality({m \in Mornings : session[m] # "none"}) <= LastMorning

WorkspaceNext ==
  /\ part' = part
  /\ \/ /\ part = "room" /\ RoomNext /\ RoomBound'
        /\ UNCHANGED <<maintenanceVars, approvalVars, consolidationVars>>
     \/ /\ part = "maintenance" /\ MaintenanceNext /\ MorningBound'
        /\ UNCHANGED <<allVars, approvalVars, consolidationVars>>
     \/ /\ part = "approvals" /\ ApprovalsNext
        /\ UNCHANGED <<allVars, maintenanceVars, consolidationVars>>
     \/ /\ part = "memory" /\ ConsolidationNext
        /\ UNCHANGED <<allVars, maintenanceVars, approvalVars>>

WorkspaceSpec == WorkspaceInit /\ [][WorkspaceNext]_WorkspaceVars

\* The values of the four parts stay what the code keeps.
WorkspaceTypeOK ==
  /\ TypeOK /\ RoomTypeOK
  /\ MaintenanceTypeOK /\ ApprovalsTypeOK /\ ConsolidationTypeOK
=============================================================================
