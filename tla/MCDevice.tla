------------------------------- MODULE MCDevice -------------------------------
(* The device's side in one run: a session of GDev (DeviceSequence), the       *)
(* calls of Gpu beside it (VulkanHost) and a workgroup of a reducing shader    *)
(* (Workgroup).  The three share no state here; a behaviour is one of them,    *)
(* and the other two are idle in it.                                           *)
EXTENDS MCDeviceSequence, MCVulkanHost, MCWorkgroup

VARIABLE part   \* the one that runs

SequenceIdle == Init /\ mode = CHOOSE m \in KvModes : TRUE

DeviceInit ==
  \/ part = "sequence" /\ Init /\ VkIdle /\ WgIdle
  \/ part = "host" /\ SequenceIdle /\ VkInit /\ WgIdle
  \/ part = "workgroup" /\ SequenceIdle /\ VkIdle /\ WgInit

\* A sequence of calls and a workgroup end; a session goes on.
Ended ==
  \/ part = "host" /\ result # "running"
  \/ part = "workgroup" /\ WgDone

DeviceNext ==
  /\ \/ part = "sequence" /\ Next /\ UNCHANGED <<vkVars, wgVars>>
     \/ part = "host" /\ VkNext /\ UNCHANGED <<vars, wgVars>>
     \/ part = "workgroup" /\ WgNext /\ UNCHANGED <<vars, vkVars>>
     \/ Ended /\ UNCHANGED <<vars, vkVars, wgVars>>
  /\ UNCHANGED part

DeviceSpec ==
  /\ DeviceInit /\ [][DeviceNext]_<<part, vars, vkVars, wgVars>>
  /\ WF_vars(Run) /\ VkFair /\ WgFair
=============================================================================
