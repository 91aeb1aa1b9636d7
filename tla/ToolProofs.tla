----------------------------- MODULE ToolProofs -----------------------------
(***************************************************************************)
(* AuthorityHeld and UnloadIsComplete for any set of objects, whatever     *)
(* call fails, file cannot be read or process is killed on the way.        *)
(***************************************************************************)
EXTENDS Tool, TLAPS

\* A map counts as the module's only while the module has one; it is the one pinned
\* unless an unload that could not tell has removed the pin.
Authority ==
    /\ bound => loaded
    /\ pin = "bound" => bound
    /\ bound /\ ~orphaned => pin = "bound"
    /\ Attached # {} => bound

\* Between its map and its end a load has the module's map, and as long as it attaches
\* programs that is the map pinned; links are held by a running load only, and the PID
\* file names one.
LoadFollows ==
    /\ pc \in {"open", "attach", "daemon"} => bound
    /\ pc \in {"open", "attach"} => pin = "bound"
    /\ pc \in {"idle", "map", "bind"} => held = {}
    /\ pidfile => pc \in {"daemon", "cleanup", "destroy"}

\* An unload runs beside a load that ends or none; once it removes pins there is none,
\* and what it has removed stays away.
UnloadFollows ==
    /\ stopping # "idle" => pc \in {"idle", "cleanup", "destroy"}
    /\ stopping \in {"links", "map"} => pc = "idle"
    /\ stopping = "done" /\ ~failed => pc = "idle"
    /\ stopping \in {"map", "done"} /\ ~failed => pinned = {}
    /\ stopping = "done" /\ ~failed => (pin # "none" => bound /\ pin = "bound")

IInv == Authority /\ LoadFollows /\ UnloadFollows

\* No map, no link, no command.
LEMMA InitIInv == ToolInit => IInv
BY DEF ToolInit, IInv, Authority, LoadFollows, UnloadFollows, Attached

\* Every step of a load, of an unload and of the module keeps the invariant.
LEMMA NextIInv == IInv /\ [ToolNext \/ RemoveModule]_authorityVars => IInv'
<1> SUFFICES ASSUME IInv, [ToolNext \/ RemoveModule]_authorityVars PROVE IInv'
    OBVIOUS
<1> USE DEF IInv, Authority, LoadFollows, UnloadFollows, Attached, kernelVars, linkVars,
            loadVars, unloadVars, inForceVars, Goto, Fail
<1>1. ASSUME NEW p \in BOOLEAN, StartLoad(p) PROVE IInv'
    BY <1>1 DEF StartLoad
<1>2. CASE GetPolicyMap
    BY <1>2 DEF GetPolicyMap
<1>3. CASE BindPolicyMap
    BY <1>3 DEF BindPolicyMap
<1>4. ASSUME NEW o \in Objects, LoadObject(o) PROVE IInv'
    BY <1>4 DEF LoadObject
<1>5. CASE UpdateLink
    BY <1>5 DEF UpdateLink
<1>6. CASE AttachProgram
    BY <1>6 DEF AttachProgram
<1>7. CASE AllAttached
    BY <1>7 DEF AllAttached
<1>8. CASE Signal
    BY <1>8 DEF Signal
<1>9. CASE Unpin
    BY <1>9 DEF Unpin
<1>10. CASE EndLoad
    BY <1>10 DEF EndLoad, Gone
<1>11. CASE Kill
    BY <1>11 DEF Kill, Gone
<1>12. CASE StartUnload
    BY <1>12 DEF StartUnload
<1>13. CASE StopDaemon
    BY <1>13 DEF StopDaemon, Waited
<1>14. CASE CleanupLinks
    BY <1>14 DEF CleanupLinks
<1>15. CASE CleanupMap
  <2>1. PICK readable \in BOOLEAN :
            /\ \/ preserve_policy_pin(readable) /\ UNCHANGED pin /\ failed' \in {failed, TRUE}
               \/ ~preserve_policy_pin(readable) /\ pin' = "none" /\ failed' \in {failed, TRUE}
               \/ ~preserve_policy_pin(readable) /\ pin # "none" /\ UNCHANGED pin /\ failed' = TRUE
            /\ orphaned' = (bound /\ (orphaned \/ (~readable /\ pin' = "none")))
    BY <1>15 DEF CleanupMap
  <2>2. ASSUME bound, ~orphaned' PROVE ~orphaned /\ (readable \/ pin' # "none")
    BY <2>1, <2>2, Zenon
  <2>3. ASSUME bound, ~orphaned' PROVE pin' = "bound"
    <3>1. pin = "bound" /\ loaded
        BY <2>2, <2>3
    <3>2. CASE readable
        BY <2>1, <3>1, <3>2, <2>3 DEF preserve_policy_pin
    <3>3. CASE pin' # "none"
        BY <2>1, <3>1, <3>3
    <3> QED
        BY <2>2, <2>3, <3>2, <3>3
  <2>4. /\ stopping = "map" /\ stopping' = "done" /\ pin' \in {pin, "none"}
        /\ UNCHANGED <<loaded, bound, pinned, held, pidfile, pc>>
    BY <1>15, <2>1 DEF CleanupMap
  <2>5. Authority'
    BY <2>3, <2>4
  <2>6. LoadFollows'
    BY <2>4
  <2>7. ASSUME ~failed' PROVE ~failed /\ (pin' # "none" => bound /\ pin' = "bound")
    BY <2>1, <2>7 DEF preserve_policy_pin
  <2> QED
    BY <2>4, <2>5, <2>6, <2>7
<1>16. CASE EndUnload
    BY <1>16 DEF EndUnload
<1>17. CASE InsertModule
    BY <1>17 DEF InsertModule
<1>18. CASE LatchError
    BY <1>18 DEF LatchError
<1>19. CASE RemoveModule
    BY <1>19 DEF RemoveModule
<1>20. CASE UNCHANGED authorityVars
    BY <1>20 DEF authorityVars
<1> QED
    BY <1>1, <1>2, <1>3, <1>4, <1>5, <1>6, <1>7, <1>8, <1>9, <1>10, <1>11, <1>12, <1>13,
       <1>14, <1>15, <1>16, <1>17, <1>18, <1>19, <1>20 DEF ToolNext

\* ensure_policy_map runs before any program is attached, and preserve_policy_pin keeps
\* the pin when it can read what it compares: attached hooks have a module with its
\* policy map, programs are attached with that map pinned, and it stays pinned until an
\* unload meets a pin or a status it cannot read.
THEOREM HooksHaveAuthority == ToolSpec => []AuthorityHeld
<1>1. IInv => AuthorityHeld
    BY DEF IInv, Authority, LoadFollows, AuthorityHeld
<1> QED
    BY <1>1, InitIInv, NextIInv, PTL DEF ToolSpec

\* cmd_unload waits for the daemon before it removes pins: when it succeeds, nothing is
\* attached and only the pin of the module's map is left.
THEOREM UnloadCompletes == ToolSpec => []UnloadIsComplete
<1>1. IInv => UnloadIsComplete
    BY DEF IInv, Authority, LoadFollows, UnloadFollows, UnloadIsComplete, Attached
<1> QED
    BY <1>1, InitIInv, NextIInv, PTL DEF ToolSpec

=============================================================================
