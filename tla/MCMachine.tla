------------------------------ MODULE MCMachine ------------------------------
(***************************************************************************)
(* What a client has on its machine, each part by itself in one state      *)
(* graph: the helper that sets up network interfaces, the life of a        *)
(* connection and its service, the updater, and the helper that ends an    *)
(* update on Windows.  A behaviour is one of the part chosen at its start. *)
(***************************************************************************)
EXTENDS NetHelper, Lifecycle, Update, Handoff

CONSTANT Parts

VARIABLES
    part,
    watched     \* a session of the helper, any one

machineVars == <<part, watched, helperVars, lifecycleVars, updateVars, handoffVars>>

MCConfig == {[name |-> "w0", local |-> 1, peer |-> 2], [name |-> "w1", local |-> 2, peer |-> 3]}

MCFiles == <<"exe", "wintun", "license">>
MCInstalled ==
    {held \in [{"exe", "wintun", "license"} -> Contents] : held["exe"] # "none"}
MCReplaced == [f \in {"exe", "wintun", "license"} |-> "old"]

(* Archives: what a release should hold, and what an updater may meet.     *)
AnEntry(name, type, size) == [name |-> name, exact |-> TRUE, type |-> type, size |-> size]
Program == AnEntry("exe", "file", 1)
Others == <<AnEntry("wintun", "file", 1), AnEntry("license", "file", 1)>>
Whole == <<AnEntry("bin", "dir", 0), Program>> \o Others
AsGood == <<Program, AnEntry("doc", "file", 1)>> \o Others
MCArchive ==
    { Whole, AsGood,
      <<Program>>,
      <<Program, Program>>,
      <<Program, [Program EXCEPT !.exact = FALSE]>> \o Others,
      <<AnEntry("bin", "file", 1), Program>>,
      <<AnEntry("exe", "link", 0)>>,
      <<AnEntry("unsafe", "file", 0), Program>>,
      <<AnEntry("doc", "file", 4), Program>>,
      <<AnEntry("exe", "file", 0)>> }
MCSums == {<<>>, <<Whole, Whole>>} \cup {<<a>> : a \in MCArchive}
MCExchanged == {[archive |-> AsGood, sums |-> <<a>>] : a \in {Whole, AsGood}}

(* Versions 1.2.0, 1.9.0 and 1.10.0, and prereleases of them.              *)
Number(digits) == [numeric |-> TRUE, text |-> digits]
Word(bytes) == [numeric |-> FALSE, text |-> bytes]
MCVersion ==
    [core : {<< <<1>>, minor, <<0>> >> : minor \in {<<2>>, <<9>>, <<1, 0>>}},
     prerelease : { <<>>, <<Number(<<9>>)>>, <<Number(<<1, 0>>)>>, <<Number(<<0, 1, 0>>)>>,
                    <<Word(<<65>>)>>, <<Word(<<65>>), Number(<<1>>)>>, <<Word(<<65, 65>>)>> }]
AVersion == [core |-> << <<1>>, <<2>>, <<0>> >>, prerelease |-> <<>>]
\* A good release of any version; one with any archive, listed or not; one whose
\* checksum file lists the archive twice or another one.
MCCases ==
    [version : MCVersion, floor : {v \in MCVersion : v.core[2] = <<1, 0>>},
     archive : {Whole}, sums : {<<Whole>>}]
    \cup [version : {AVersion}, floor : {AVersion},
          archive : {Whole}, sums : MCSums]
    \cup {[version |-> AVersion, floor |-> AVersion, archive |-> a, sums |-> <<a>>] :
             a \in MCArchive}

\* What a part may find at first is left open only if it is the one chosen.
MachineInit ==
    /\ part \in Parts
    /\ watched \in Session
    /\ HelperInit
    /\ part # "helper" => rooted = {} /\ watched = CHOOSE s \in Session : TRUE
    /\ LifecycleInit /\ (part # "lifecycle" => manager = "user")
    /\ HandoffInit /\ (part # "handoff" => before = MCReplaced)
    /\ UpdateInit
    /\ part # "update" =>
         /\ system = "unix" /\ mode = "online" /\ ~managed /\ ~sidecars
         /\ executable = <<>>
         /\ published = [version |-> AVersion, archive |-> Whole, sums |-> <<Whole>>]
         /\ floor = AVersion

MachineNext ==
    \/ /\ part = "helper" /\ HelperNext
       /\ UNCHANGED <<part, watched, lifecycleVars, updateVars, handoffVars>>
    \/ /\ part = "lifecycle" /\ LifecycleNext
       /\ UNCHANGED <<part, watched, helperVars, updateVars, handoffVars>>
    \/ /\ part = "update" /\ UpdateNext
       /\ UNCHANGED <<part, watched, helperVars, lifecycleVars, handoffVars>>
    \/ /\ part = "handoff" /\ HandoffNext
       /\ UNCHANGED <<part, watched, helperVars, lifecycleVars, updateVars>>

\* Every step of a session that has to be taken is.
HelperFairness == \A s \in Session : WF_helperVars(part = "helper" /\ Serve(s))

\* Processes go on, commands that were begun too, and the manager starts what it
\* is to run.
LifecycleFairness ==
    /\ \A p \in Processes : WF_lifecycleVars(part = "lifecycle" /\ Advance(p))
    /\ \A t \in Terminal : WF_lifecycleVars(part = "lifecycle" /\ Proceed(t))
    /\ WF_lifecycleVars(part = "lifecycle" /\ JobStarts)

\* A helper that runs goes on.
HandoffFairness == WF_handoffVars(part = "handoff" /\ HandoffWork)

MachineSpec ==
    /\ MachineInit /\ [][MachineNext]_machineVars
    /\ HelperFairness /\ LifecycleFairness /\ HandoffFairness
-----------------------------------------------------------------------------
\* The type invariants of the parts: what leaves its type is a helper that serves
\* more than it has slots, a lock nobody holds, a staged file nobody will use, a
\* record of a file that was not reached.
MachineTypeOK == NetHelperTypeOK /\ LifecycleTypeOK /\ UpdateTypeOK /\ HandoffTypeOK

\* A session whose client has gone ends, and its slot is free for another.
\* A service that is to run, while users leave it alone, comes to serve the
\* connection, whatever a process that was killed has left in the directory.
\* A helper of the Windows update that meets with no trouble completes it, the
\* first one and one that takes up the transaction of a helper that died or failed,
\* wherever that one was, unless it had begun to roll back.
ServiceDue == service.wanted /\ saved /\ \A t \in Terminal : doing[t] = "idle"
HandoffDue == phase = "waiting" /\ undone = 0 /\ ~interrupted /\ breaks = MaxBreaks
MachineProgress ==
    (\/ part = "helper" /\ watched \in gone
     \/ part = "lifecycle" /\ ServiceDue
     \/ part = "handoff" /\ HandoffDue)
    ~>
    (\/ part = "helper" /\ condition[watched] = "idle"
     \/ part = "lifecycle" /\ (ServiceDue => doing[Job] = "serving")
     \/ part = "handoff" /\ result = "done")
=============================================================================
