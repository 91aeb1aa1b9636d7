-------------------------------- MODULE Tool --------------------------------
(***************************************************************************)
(* bpfima-tool and what outlives it: the pin of the policy map, the links  *)
(* of the hooks and the PID file. A load becomes the daemon; an unload     *)
(* stops the daemon and removes what it finds. Commands are given one      *)
(* after the other; any of them may be killed between two steps, and any   *)
(* BPF call or file access may fail.                                       *)
(*                                                                         *)
(* The pinned policy map is told apart by its life: fresh, the map bound   *)
(* by the module that is loaded, or stale, bound in an earlier epoch.      *)
(***************************************************************************)
EXTENDS PolicyInForce

CONSTANTS
    Objects               \* the objects a load is given, each with one program

VARIABLES
    loaded,               \* the module is loaded
    pin,                  \* the policy map pinned, "none" if there is none
    orphaned,             \* for the properties: an unload that could not tell whose map is
                          \* pinned has removed the pin of the module's
    pinned,               \* objects whose link is pinned
    held,                 \* objects whose link the load holds
    pidfile,              \* the daemon in the PID file is running
    pc,                   \* the load, from its start to the end of the daemon
    persist,              \* BPFIMA_PERSIST_STATE
    opened, todo,         \* g_objs, and the objects to come
    current,              \* the object being attached, as a set
    err,
    stopping,             \* the unload
    failed                \* its return value

kernelVars == <<loaded, inForceVars, pin, orphaned>>
linkVars == <<pinned, held>>
loadVars == <<pc, persist, opened, todo, current, err>>
unloadVars == <<stopping, failed>>
toolVars == <<kernelVars, linkVars, pidfile, loadVars, unloadVars>>

Attached == pinned \cup held

-----------------------------------------------------------------------------
(* load *)

Goto(label) == pc' = label /\ UNCHANGED err
Fail == pc' = "cleanup" /\ err' = TRUE

\* ensure_single_instance.
StartLoad(p) ==
    /\ pc = "idle" /\ stopping = "idle"
    /\ Goto("map")
    /\ persist' = p /\ opened' = {} /\ todo' = Objects /\ current' = {}
    /\ UNCHANGED <<kernelVars, linkVars, pidfile, unloadVars>>

\* A policy map that is not pinned yet is created, frozen and pinned.
GetPolicyMap ==
    /\ pc = "map"
    /\ \/ Goto("bind") /\ pin' = IF pin = "none" THEN "fresh" ELSE pin
       \/ Fail /\ UNCHANGED pin
    /\ UNCHANGED <<loaded, inForceVars, orphaned, linkVars, pidfile, persist, opened, todo, current, unloadVars>>

\* The module takes one map per epoch, no map in two epochs, and none once an error is
\* latched.
BindPolicyMap ==
    /\ pc = "bind"
    /\ \/ loaded /\ ~latched /\ pin = "bound" /\ Goto("open") /\ UNCHANGED <<bound, committed, pin>>
       \/ /\ loaded /\ ~latched /\ pin = "fresh" /\ ~bound /\ Goto("open")
          /\ bound' = TRUE /\ pin' = "bound" /\ committed' = InitialPolicy
       \/ Fail /\ UNCHANGED <<bound, committed, pin>>
    /\ UNCHANGED <<loaded, latched, replaced, orphaned, linkVars, pidfile, persist, opened, todo, current, unloadVars>>

\* load_and_attach_one_object up to its programs: the object takes over the pinned
\* policy map and is loaded, which needs the functions of the module.
LoadObject(o) ==
    /\ pc = "open" /\ o \in todo
    /\ todo' = todo \ {o} /\ current' = {o}
    /\ \/ loaded /\ pin # "none" /\ Goto("attach") /\ opened' = opened \cup {o}
       \/ Fail /\ opened' \in {opened, opened \cup {o}}
    /\ UNCHANGED <<kernelVars, linkVars, pidfile, persist, unloadVars>>

\* A link that is pinned gets the new program. When that fails, the pin goes and
\* the program is attached anew.
UpdateLink ==
    /\ pc = "attach" /\ current \subseteq pinned
    /\ \/ Goto("open") /\ UNCHANGED pinned
       \/ pinned' = pinned \ current /\ UNCHANGED <<pc, err>>
    /\ UNCHANGED <<kernelVars, held, pidfile, persist, opened, todo, current, unloadVars>>

\* A link that cannot be pinned lasts as long as the process.
AttachProgram ==
    /\ pc = "attach" /\ ~(current \subseteq pinned)
    /\ \/ /\ held' = held \cup current /\ Goto("open")
          /\ pinned' \in {pinned, pinned \cup current}
       \/ Fail /\ UNCHANGED linkVars
    /\ UNCHANGED <<kernelVars, pidfile, persist, opened, todo, current, unloadVars>>

\* run_daemon_loop: the daemon is known by its PID file. Without -d the command is over.
AllAttached ==
    /\ pc = "open" /\ todo = {}
    /\ \/ Goto("daemon") /\ pidfile' = TRUE
       \/ Goto("cleanup") /\ UNCHANGED pidfile
       \/ Fail /\ UNCHANGED pidfile
    /\ UNCHANGED <<kernelVars, linkVars, persist, opened, todo, current, unloadVars>>

\* SIGINT or SIGTERM from elsewhere.
Signal ==
    /\ pc = "daemon" /\ Goto("cleanup")
    /\ UNCHANGED <<kernelVars, linkVars, pidfile, persist, opened, todo, current, unloadVars>>

\* The pins of the objects go, unless they are to persist; one that cannot be
\* removed is passed over.
Unpin ==
    /\ pc = "cleanup" /\ Goto("destroy")
    /\ \E gone \in SUBSET opened : pinned' = IF persist /\ ~err THEN pinned ELSE pinned \ gone
    /\ UNCHANGED <<kernelVars, held, pidfile, persist, opened, todo, current, unloadVars>>

\* What a process leaves when it ends.
Gone ==
    /\ pc' = "idle" /\ held' = {} /\ err' = FALSE
    /\ persist' = FALSE /\ opened' = {} /\ todo' = {} /\ current' = {}

EndLoad ==
    /\ pc = "destroy" /\ Gone /\ pidfile' = FALSE
    /\ UNCHANGED <<kernelVars, pinned, unloadVars>>

\* The process is killed; a PID file it leaves names no process.
Kill ==
    /\ pc # "idle" /\ Gone /\ pidfile' = FALSE
    /\ UNCHANGED <<kernelVars, pinned, unloadVars>>

-----------------------------------------------------------------------------
(* unload *)

\* A daemon that is running is told to stop.
StartUnload ==
    /\ stopping = "idle" /\ (pc = "idle" \/ pidfile)
    /\ stopping' = "wait" /\ failed' = FALSE
    /\ IF pc = "daemon" THEN Goto("cleanup") ELSE UNCHANGED <<pc, err>>
    /\ UNCHANGED <<kernelVars, linkVars, pidfile, persist, opened, todo, current>>

\* Mutant: the pins are removed while the daemon still ends.
Waited_Not == TRUE

\* The daemon is gone, by itself or killed; else the unload gives up.
Waited == pc = "idle"

StopDaemon ==
    /\ stopping = "wait"
    /\ \/ Waited /\ stopping' = "links" /\ UNCHANGED failed
       \/ ~Waited /\ stopping' = "done" /\ failed' = TRUE
    /\ UNCHANGED <<kernelVars, linkVars, pidfile, loadVars>>

\* cleanup_pinned_links: what cannot be removed stays, and is reported. The directory
\* may fail too.
CleanupLinks ==
    /\ stopping = "links" /\ stopping' = "map"
    /\ \E kept \in SUBSET pinned : pinned' = kept /\ failed' \in {kept # {}, TRUE}
    /\ UNCHANGED <<kernelVars, held, pidfile, loadVars>>

\* Mutant: the pin goes whatever the module follows.
preserve_policy_pin_Never(readable) == FALSE

\* The pinned map is the one in the module's status. When the pin, its description or
\* the status cannot be read the answer is no.
preserve_policy_pin(readable) == readable /\ loaded /\ bound /\ pin = "bound"

\* cleanup_pinned_maps, where the other maps may fail, then the PID file.
CleanupMap ==
    /\ stopping = "map" /\ stopping' = "done"
    /\ \E readable \in BOOLEAN :
          /\ \/ preserve_policy_pin(readable) /\ UNCHANGED pin /\ failed' \in {failed, TRUE}
             \/ ~preserve_policy_pin(readable) /\ pin' = "none" /\ failed' \in {failed, TRUE}
             \/ ~preserve_policy_pin(readable) /\ pin # "none" /\ UNCHANGED pin /\ failed' = TRUE
          /\ orphaned' = (bound /\ (orphaned \/ (~readable /\ pin' = "none")))
    /\ UNCHANGED <<loaded, inForceVars, linkVars, pidfile, loadVars>>

\* The unload returns, or is killed.
EndUnload ==
    /\ stopping # "idle" /\ stopping' = "idle" /\ failed' = FALSE
    /\ UNCHANGED <<kernelVars, linkVars, pidfile, loadVars>>

-----------------------------------------------------------------------------
(* insmod and rmmod, commands too: a program that calls the module's functions
   keeps the module loaded *)

InsertModule ==
    /\ ~loaded /\ loaded' = TRUE
    /\ UNCHANGED <<inForceVars, pin, orphaned, linkVars, pidfile, loadVars, unloadVars>>

RemoveModule ==
    /\ loaded /\ Attached = {} /\ pc = "idle" /\ stopping = "idle"
    /\ loaded' = FALSE /\ bound' = FALSE /\ committed' = NoPolicy /\ latched' = FALSE
    /\ replaced' = TRUE /\ orphaned' = FALSE
    /\ pin' = IF pin = "bound" THEN "stale" ELSE pin
    /\ UNCHANGED <<linkVars, pidfile, loadVars, unloadVars>>

\* A commit of the module, of a measurement or of a policy, latches an error.
LatchError ==
    /\ loaded /\ ~latched /\ latched' = TRUE
    /\ UNCHANGED <<loaded, bound, committed, replaced, pin, orphaned, linkVars, pidfile, loadVars, unloadVars>>

ToolInit ==
    /\ loaded = FALSE /\ bound = FALSE /\ committed = NoPolicy /\ latched = FALSE /\ replaced = FALSE
    /\ pin = "none" /\ orphaned = FALSE
    /\ pinned = {} /\ held = {} /\ pidfile = FALSE
    /\ pc = "idle" /\ persist = FALSE /\ opened = {} /\ todo = {} /\ current = {} /\ err = FALSE
    /\ stopping = "idle" /\ failed = FALSE

ToolNext ==
    \/ \E p \in BOOLEAN : StartLoad(p)
    \/ GetPolicyMap \/ BindPolicyMap \/ UpdateLink \/ AttachProgram \/ AllAttached
    \/ \E o \in Objects : LoadObject(o)
    \/ Signal \/ Unpin \/ EndLoad \/ Kill
    \/ StartUnload \/ StopDaemon \/ CleanupLinks \/ CleanupMap \/ EndUnload
    \/ InsertModule \/ LatchError

\* The policy in force aside, which the controller changes too.
authorityVars == <<loaded, bound, latched, pin, orphaned, linkVars, pidfile, loadVars, unloadVars>>

ToolSpec == ToolInit /\ [][ToolNext \/ RemoveModule]_authorityVars

-----------------------------------------------------------------------------
(* Properties *)

\* "Bind one protected map before any hook becomes active": while a hook is attached the
\* module is loaded and has its policy map, and a program is attached only when the map
\* it was given, the pinned one, is the module's. "hook cleanup must not orphan it": the
\* module's map stays pinned as long as every unload could read the pin and the status;
\* preserve_policy_pin takes what it cannot read for a map the module does not follow.
AuthorityHeld ==
    /\ Attached # {} => loaded /\ bound
    /\ pc = "attach" => pin = "bound"
    /\ bound => loaded /\ (pin = "bound" \/ orphaned)

\* An unload that succeeds leaves no hook attached and no pin but that of the map the
\* module follows, even when the daemon, or a load before it, was killed half way.
UnloadIsComplete ==
    stopping = "done" /\ ~failed => Attached = {} /\ (pin # "none" => bound /\ pin = "bound")

=============================================================================
