------------------------- MODULE AssignInside_proofs -------------------------
(***************************************************************************)
(* Proofs about an instance from the inside (AssignSteps) and about what   *)
(* it shares with its neighbours outside (HostPorts).                      *)
(***************************************************************************)
EXTENDS AssignSteps, HostPorts, FiniteSetTheorems, TLAPS

(***************************************************************************)
(* HostPorts, for any number of projects, any ephemeral range and whatever *)
(* may fail: the types, and that the ports of an instance nobody is        *)
(* removing are its own and lead to it.                                    *)
(*                                                                         *)
(* PortsLeadHome is not inductive: it says nothing of an instance that is  *)
(* being run, stopped or started.  Fits adds what the request at work on   *)
(* an instance keeps true of it, from its first step to its last.          *)
(***************************************************************************)
Tenants  == [status : PortStatus, dyn : Dynamic \union {Nowhere}]
Boxes    == [port : Dynamic \union {Nowhere}, up : BOOLEAN]
Chores   == [at : Steps, port : Dynamic \union {Nowhere}, was : PortStatus]
Forwards == [of : Neighbours, to : Dynamic] \union {NoForward}

RunSteps == {"pick", "boot", "record", "clean"}
RmSteps  == {"mark", "remove", "removed"}

\* Between two steps of a request the row has the status the request gave it.
InStep(n) ==
    /\ chore[n].at \notin RmSteps
    /\ chore[n].at \in RunSteps => tenant[n].status = "Provisioning"
    /\ chore[n].at \in {"stop", "stopped"} => tenant[n].status = "Stopping"
    /\ chore[n].at \in {"start", "started"} => tenant[n].status = "Starting"
    /\ chore[n].at = "assign" => /\ tenant[n].status = "Assigning"
                                 /\ chore[n].was \in Live \union {"Assigning"}

\* A port is written down once the instance has been run; it is the one the
\* container was made with, and the container is up when the row says so or is
\* going to.
OwnPort(n) ==
    /\ tenant[n].status \in {"none", "Provisioning"} <=> tenant[n].dyn = Nowhere
    /\ tenant[n].dyn # Nowhere => pub[n].port = tenant[n].dyn
    /\ chore[n].at = "boot" => chore[n].port # Nowhere
    /\ chore[n].at = "record" => chore[n].port # Nowhere /\ pub[n].port = chore[n].port /\ pub[n].up
    /\ tenant[n].status \in Live \union {"Assigning"} \/ chore[n].at = "started" => pub[n].up

\* The forwarder is of whoever is checked out, or will be again when its assign
\* ends, and leads to the port written down.
Held(n) ==
    /\ tenant[n].status = "CheckedOut" => canon.of = n
    /\ chore[n].at = "assign" /\ chore[n].was = "CheckedOut" => canon.of = n
    /\ chore[n].at = "assign" /\ chore[n].was = "Running" => canon.of # n
    /\ canon.of = n => tenant[n].status \in {"CheckedOut", "Assigning"} /\ canon.to = tenant[n].dyn

Fits(n) == InStep(n) /\ OwnPort(n) /\ Held(n)

\* Who is being removed has a row, and not from a run that is at work; what else
\* is at work, an assign that comes after an rm was cut off too, does not take
\* away the row or the port written in it.
Removable(n) ==
    /\ tenant[n].status # "none"
    /\ tenant[n].status = "Provisioning" <=> tenant[n].dyn = Nowhere
    /\ chore[n].at \notin RunSteps
    /\ chore[n].at \in {"stop", "stopped", "start", "started", "assign", "mark"} =>
          tenant[n].status # "Provisioning"
    /\ chore[n].at = "assign" => chore[n].was \notin {"none", "Provisioning"}

\* A checkout that keeps the mutex has made its instance Running, and it stays so.
Keeps(n) ==
    dbHolder = n => /\ tenant[n].dyn # Nowhere
                    /\ n \in doomed \/ tenant[n].status = "Running"

Sorted(n) == IF n \in doomed THEN Removable(n) ELSE Fits(n)

PortsInd ==
    /\ PortsTypeOK
    /\ \A n \in Neighbours : Sorted(n) /\ Keeps(n)

----------------------------------------------------------------------------
(* The initial state, and what the invariant gives.                        *)

LEMMA FreshTypes ==
    /\ NoTenant \in Tenants /\ NoTenant.status = "none" /\ NoTenant.dyn = Nowhere
    /\ NoBox \in Boxes /\ NoBox.port = Nowhere /\ NoBox.up = FALSE
    /\ NoChore \in Chores /\ NoChore.at = "idle" /\ NoChore.port = Nowhere /\ NoChore.was = "none"
    /\ NoForward \in Forwards /\ \A n \in Neighbours : NoForward.of # n
BY HostPortsOK DEF NoTenant, NoBox, NoChore, NoForward, Tenants, Boxes, Chores, Forwards,
                   PortStatus, Steps

\* The names, seen from outside the sets they are in.
LEMMA Names ==
    /\ RunSteps \subseteq Steps /\ RmSteps \subseteq Steps
    /\ {"idle", "stop", "stopped", "start", "started", "assign"} \subseteq Steps
    /\ {"none", "Running", "CheckedOut", "Provisioning", "Stopping", "Stopped", "Starting",
        "Assigning"} \subseteq PortStatus
    /\ Nowhere \notin Neighbours /\ Nowhere \notin Dynamic
BY HostPortsOK DEF RunSteps, RmSteps, Steps, PortStatus, Live, HostPorts

\* The type invariant, by the names of its parts.
LEMMA Typed ==
    PortsTypeOK <=> /\ tenant \in [Neighbours -> Tenants]
                    /\ pub \in [Neighbours -> Boxes]
                    /\ canon \in Forwards
                    /\ foreign \subseteq HostPorts
                    /\ chore \in [Neighbours -> Chores]
                    /\ dbHolder \in Neighbours \union {Nowhere}
                    /\ doomed \subseteq Neighbours
BY DEF PortsTypeOK, Tenants, Boxes, Chores, Forwards

LEMMA PortsIndInit == PortsInit => PortsInd
<1> SUFFICES ASSUME PortsInit PROVE PortsInd
    OBVIOUS
<1>1. PortsTypeOK
    BY FreshTypes, Typed DEF PortsInit
<1>2. ASSUME NEW n \in Neighbours PROVE Sorted(n) /\ Keeps(n)
    BY FreshTypes, Names DEF PortsInit, Sorted, Keeps, Fits, InStep, OwnPort, Held,
                             Live, RunSteps, RmSteps
<1> QED
    BY <1>1, <1>2 DEF PortsInd

LEMMA PortsIndHome == PortsInd => PortsLeadHome
<1> SUFFICES ASSUME PortsInd PROVE PortsLeadHome
    OBVIOUS
<1>1. ASSUME NEW n \in Neighbours \ doomed,
             StatusOf(n) \in Live \union {"Assigning"} \/ Doing(n, "assign")
      PROVE  AtHome(n)
    <2>1. tenant[n].dyn # Nowhere /\ pub[n].port = tenant[n].dyn /\ pub[n].up
        BY <1>1 DEF PortsInd, Sorted, Fits, InStep, OwnPort, StatusOf, Doing, Live
    <2>2. pub[n] = [port |-> pub[n].port, up |-> pub[n].up] /\ pub[n].up \in BOOLEAN
        BY Typed DEF PortsInd, Boxes
    <2> QED
        BY <2>1, <2>2 DEF AtHome
<1>2. \A n \in Neighbours \ doomed : StatusOf(n) = "CheckedOut" => canon.of = n
    BY DEF PortsInd, Sorted, Fits, Held, StatusOf
<1>3. ASSUME canon # NoForward, canon.of \notin doomed
      PROVE  /\ StatusOf(canon.of) \in {"CheckedOut", "Assigning"}
             /\ canon.to = tenant[canon.of].dyn
             /\ AtHome(canon.of)
    <2>1. canon.of \in Neighbours \ doomed
        BY <1>3, Typed DEF PortsInd, Forwards
    <2>2. StatusOf(canon.of) \in {"CheckedOut", "Assigning"} /\ canon.to = tenant[canon.of].dyn
        BY <2>1 DEF PortsInd, Sorted, Fits, Held, StatusOf
    <2> QED
        BY <2>1, <2>2, <1>1 DEF Live
<1> QED
    BY <1>1, <1>2, <1>3 DEF PortsLeadHome

----------------------------------------------------------------------------
(* What a step of one instance's request does to the rest.                 *)

\* Only the row, the container and the request of n change, and the forwarder
\* only if it is of n.
OwnMove(n) ==
    /\ tenant'[n] \in Tenants /\ tenant' = [tenant EXCEPT ![n] = tenant'[n]]
    /\ pub'[n] \in Boxes /\ pub' = [pub EXCEPT ![n] = pub'[n]]
    /\ chore'[n] \in Chores /\ chore' = [chore EXCEPT ![n] = chore'[n]]
    /\ canon' \in {canon, ForwardWithout({n})}
    /\ doomed' \in {doomed, doomed \union {n}, doomed \ {n}}
    /\ foreign' = foreign /\ dbHolder' = dbHolder

LEMMA OwnStep ==
    ASSUME PortsInd, NEW n \in Neighbours, OwnMove(n), Sorted(n)', Keeps(n)'
    PROVE  PortsInd'
<1>1. PortsTypeOK'
    <2>1. canon' \in Forwards
        BY FreshTypes, Typed DEF PortsInd, Forwards, ForwardWithout, OwnMove
    <2>2. tenant' \in [Neighbours -> Tenants] /\ pub' \in [Neighbours -> Boxes]
          /\ chore' \in [Neighbours -> Chores]
        BY Typed DEF PortsInd, OwnMove
    <2>3. doomed' \subseteq Neighbours /\ foreign' = foreign /\ dbHolder' = dbHolder
        BY Typed DEF PortsInd, OwnMove
    <2> QED
        BY <2>1, <2>2, <2>3, Typed DEF PortsInd, PortsTypeOK, Tenants, Boxes, Chores, Forwards
<1>2. ASSUME NEW m \in Neighbours, m # n
      PROVE  Sorted(m)' /\ Keeps(m)'
    <2>1. /\ tenant'[m] = tenant[m] /\ pub'[m] = pub[m] /\ chore'[m] = chore[m]
          /\ m \in doomed' <=> m \in doomed
        BY <1>2, Typed DEF PortsInd, OwnMove
    <2>2. canon' = canon \/ (canon.of = n /\ canon' = NoForward)
        BY DEF OwnMove, ForwardWithout
    <2>3. /\ canon'.of = m <=> canon.of = m
          /\ canon.of = m => canon' = canon
        BY <1>2, <2>2, FreshTypes
    <2>4. Sorted(m) /\ Keeps(m) /\ dbHolder' = dbHolder
        BY DEF PortsInd, OwnMove
    <2> QED
        BY <2>1, <2>3, <2>4 DEF Sorted, Keeps, Removable, Fits, InStep, OwnPort, Held
<1> QED
    BY <1>1, <1>2 DEF PortsInd

\* A variable of which only the value at n changes, and how.
LEMMA Stays ==
    ASSUME PortsInd, NEW n \in Neighbours
    PROVE  /\ tenant' = tenant => /\ tenant'[n] \in Tenants /\ tenant'[n] = tenant[n]
                                  /\ tenant' = [tenant EXCEPT ![n] = tenant'[n]]
           /\ pub' = pub => /\ pub'[n] \in Boxes /\ pub'[n] = pub[n]
                            /\ pub' = [pub EXCEPT ![n] = pub'[n]]
           /\ chore' = chore => /\ chore'[n] \in Chores /\ chore'[n] = chore[n]
                                /\ chore' = [chore EXCEPT ![n] = chore'[n]]
BY Typed DEF PortsInd

LEMMA Sets ==
    ASSUME PortsInd, NEW n \in Neighbours, NEW s \in PortStatus, SetStatus(n, s)
    PROVE  /\ tenant'[n] \in Tenants /\ tenant' = [tenant EXCEPT ![n] = tenant'[n]]
           /\ tenant'[n].status = s /\ tenant'[n].dyn = tenant[n].dyn
BY Typed DEF PortsInd, SetStatus, Tenants

LEMMA GoesOn ==
    ASSUME PortsInd, NEW n \in Neighbours, NEW s \in Steps, Goes(n, s)
    PROVE  /\ chore'[n] \in Chores /\ chore' = [chore EXCEPT ![n] = chore'[n]]
           /\ chore'[n].at = s /\ chore'[n].port = chore[n].port /\ chore'[n].was = chore[n].was
BY Typed DEF PortsInd, Goes, Chores

LEMMA Finishes ==
    ASSUME PortsInd, NEW n \in Neighbours, Ends(n)
    PROVE  /\ chore'[n] \in Chores /\ chore' = [chore EXCEPT ![n] = chore'[n]]
           /\ chore'[n].at = "idle"
BY Typed, FreshTypes DEF PortsInd, Ends

LEMMA NobodysMutex ==
    ASSUME Mutex, NEW n \in Neighbours PROVE dbHolder # n
BY Names DEF Mutex

\* What an instance's parts say together, in one word for the provers.
LEMMA Was ==
    ASSUME PortsInd, NEW n \in Neighbours
    PROVE  Sorted(n) /\ Keeps(n)
BY DEF PortsInd

----------------------------------------------------------------------------
(* run.                                                                    *)

LEMMA RunInsertsKeeps ==
    ASSUME PortsInd, NEW n \in Neighbours, RunInserts(n) PROVE PortsInd'
<1>1. /\ OwnMove(n)
      /\ tenant'[n].status = "Provisioning" /\ tenant'[n].dyn = tenant[n].dyn
      /\ pub'[n] = pub[n] /\ chore'[n].at = "pick"
    BY Sets, GoesOn, Stays, Names DEF RunInserts, OwnMove, RunSteps
<1>2. canon' = canon /\ doomed' = doomed /\ dbHolder' # n
      /\ chore[n].at = "idle" /\ tenant[n].status = "none"
    BY NobodysMutex DEF RunInserts, Doing, StatusOf
<1>3. Sorted(n)' /\ Keeps(n)'
    BY <1>1, <1>2, Was DEF Sorted, Keeps, Removable, Fits, InStep, OwnPort, Held,
                     RunSteps, RmSteps, Live
<1> QED
    BY <1>1, <1>3, OwnStep

LEMMA RunPicksKeeps ==
    ASSUME PortsInd, NEW n \in Neighbours, RunPicks(n) PROVE PortsInd'
<1>1. /\ chore'[n] \in Chores /\ chore' = [chore EXCEPT ![n] = chore'[n]]
      /\ chore'[n].at = "clean" \/ (chore'[n].at = "boot" /\ chore'[n].port # Nowhere)
    <2>1. CASE Goes(n, "clean")
        BY <2>1, GoesOn, Names DEF RunSteps
    <2>2. CASE \E p \in Dynamic :
                   ~Bound(p) /\ chore' = [chore EXCEPT ![n].at = "boot", ![n].port = p]
        <3>1. PICK p \in Dynamic : chore' = [chore EXCEPT ![n].at = "boot", ![n].port = p]
            BY <2>2
        <3>2. chore \in [Neighbours -> Chores] /\ "boot" \in Steps /\ p # Nowhere
            BY Typed, Names DEF PortsInd, RunSteps
        <3>3. chore'[n] \in Chores /\ chore'[n].at = "boot" /\ chore'[n].port = p
            BY <3>1, <3>2 DEF Chores
        <3>4. chore' = [chore EXCEPT ![n] = chore'[n]]
            BY <3>1, <3>2
        <3> QED
            BY <3>2, <3>3, <3>4
    <2> QED
        BY <2>1, <2>2 DEF RunPicks
<1>2. /\ OwnMove(n)
      /\ tenant'[n] = tenant[n] /\ pub'[n] = pub[n]
      /\ canon' = canon /\ doomed' = doomed /\ dbHolder' = dbHolder /\ chore[n].at = "pick"
    BY <1>1, Stays DEF RunPicks, OwnMove, Doing
<1>3. Sorted(n)' /\ Keeps(n)'
    BY <1>1, <1>2, Was DEF Sorted, Keeps, Removable, Fits, InStep, OwnPort, Held,
                     RunSteps, RmSteps, Live
<1> QED
    BY <1>2, <1>3, OwnStep

LEMMA RunBootsKeeps ==
    ASSUME PortsInd, NEW n \in Neighbours, RunBoots(n) PROVE PortsInd'
<1>1. PICK up \in BOOLEAN :
          /\ pub' = [pub EXCEPT ![n] = [port |-> chore[n].port, up |-> up]]
          /\ Goes(n, IF up THEN "record" ELSE "clean")
    BY DEF RunBoots
<1>2. /\ chore'[n] \in Chores /\ chore' = [chore EXCEPT ![n] = chore'[n]]
      /\ chore'[n].at = (IF up THEN "record" ELSE "clean") /\ chore'[n].port = chore[n].port
    BY <1>1, GoesOn, Names DEF RunSteps
<1>3. /\ pub'[n] \in Boxes /\ pub' = [pub EXCEPT ![n] = pub'[n]]
      /\ pub'[n].port = chore[n].port /\ pub'[n].up = up
    BY <1>1, Typed DEF PortsInd, Boxes, Chores
<1>4. /\ OwnMove(n) /\ tenant'[n] = tenant[n]
      /\ canon' = canon /\ doomed' = doomed /\ dbHolder' = dbHolder /\ chore[n].at = "boot"
    BY <1>2, <1>3, Stays DEF RunBoots, OwnMove, Doing
<1>5. Sorted(n)' /\ Keeps(n)'
    BY <1>2, <1>3, <1>4, Was DEF Sorted, Keeps, Removable, Fits, InStep, OwnPort, Held,
                     RunSteps, RmSteps, Live
<1> QED
    BY <1>4, <1>5, OwnStep

LEMMA RunRecordsKeeps ==
    ASSUME PortsInd, NEW n \in Neighbours, RunRecords(n) PROVE PortsInd'
<1>1. /\ chore[n].at = "record" /\ pub' = pub /\ pub'[n] = pub[n]
      /\ UNCHANGED <<canon, foreign, dbHolder, doomed>>
    BY DEF RunRecords, Doing
<1>2. CASE /\ Mutex
           /\ tenant' = [tenant EXCEPT ![n] = [status |-> "Running", dyn |-> chore[n].port]]
           /\ Ends(n)
    <2>1. /\ tenant'[n] \in Tenants /\ tenant' = [tenant EXCEPT ![n] = tenant'[n]]
          /\ tenant'[n].status = "Running" /\ tenant'[n].dyn = chore[n].port
        BY <1>2, Typed, Names DEF PortsInd, Tenants, Chores
    <2>2. OwnMove(n) /\ chore'[n].at = "idle"
        BY <1>1, <1>2, <2>1, Finishes, Stays DEF OwnMove
    <2>3. Sorted(n)' /\ Keeps(n)'
        BY <1>1, <2>1, <2>2, Was DEF Sorted, Keeps, Removable, Fits, InStep, OwnPort, Held,
                     RunSteps, RmSteps, Live
    <2> QED
        BY <2>2, <2>3, OwnStep
<1>3. CASE Goes(n, "clean") /\ UNCHANGED tenant
    <2>1. OwnMove(n) /\ chore'[n].at = "clean" /\ tenant'[n] = tenant[n]
        BY <1>1, <1>3, GoesOn, Stays, Names DEF OwnMove, RunSteps
    <2>2. Sorted(n)' /\ Keeps(n)'
        BY <1>1, <2>1, Was DEF Sorted, Keeps, Removable, Fits, InStep, OwnPort, Held,
                     RunSteps, RmSteps, Live
    <2> QED
        BY <2>1, <2>2, OwnStep
<1> QED
    BY <1>2, <1>3 DEF RunRecords

LEMMA RunCleansKeeps ==
    ASSUME PortsInd, NEW n \in Neighbours, RunCleans(n) PROVE PortsInd'
<1>1. /\ tenant'[n] \in Tenants /\ tenant' = [tenant EXCEPT ![n] = tenant'[n]]
      /\ tenant'[n].status = "none" /\ tenant'[n].dyn = Nowhere
      /\ pub'[n] \in Boxes /\ pub' = [pub EXCEPT ![n] = pub'[n]]
    BY Typed, FreshTypes DEF RunCleans, PortsInd
<1>2. OwnMove(n) /\ chore'[n].at = "idle"
    BY <1>1, Finishes DEF RunCleans, OwnMove
<1>3. canon' = canon /\ n \notin doomed' /\ dbHolder' # n /\ chore[n].at = "clean"
    BY NobodysMutex DEF RunCleans, Doing
<1>4. Sorted(n)' /\ Keeps(n)'
    BY <1>1, <1>2, <1>3, Was DEF Sorted, Keeps, Removable, Fits, InStep, OwnPort, Held,
                     RunSteps, RmSteps, Live
<1> QED
    BY <1>2, <1>4, OwnStep

----------------------------------------------------------------------------
(* stop and start.                                                         *)

LEMMA StopBeginsKeeps ==
    ASSUME PortsInd, NEW n \in Neighbours, StopBegins(n) PROVE PortsInd'
<1>1. /\ OwnMove(n)
      /\ tenant'[n].status = "Stopping" /\ tenant'[n].dyn = tenant[n].dyn
      /\ pub'[n] = pub[n] /\ chore'[n].at = "stop"
    <2>1. canon' \in {canon, ForwardWithout({n})}
        BY DEF StopBegins, Leaves, ForwardWithout
    <2> QED
        BY <2>1, Sets, GoesOn, Stays, Names DEF StopBegins, Leaves, OwnMove
<1>2. /\ doomed' = doomed /\ dbHolder' # n
      /\ chore[n].at = "idle" /\ tenant[n].status \in Live
    BY NobodysMutex DEF StopBegins, Doing, StatusOf
<1>3. n \notin doomed => canon'.of # n
    BY <1>2, Was, FreshTypes DEF StopBegins, Leaves, ForwardWithout, StatusOf, Sorted, Fits, Held, Live
<1>4. Sorted(n)' /\ Keeps(n)'
    BY <1>1, <1>2, <1>3, Was DEF Sorted, Keeps, Removable, Fits, InStep, OwnPort, Held,
                     RunSteps, RmSteps, Live
<1> QED
    BY <1>1, <1>4, OwnStep

LEMMA StopBoxKeeps ==
    ASSUME PortsInd, NEW n \in Neighbours, StopBox(n) PROVE PortsInd'
<1>1. /\ chore[n].at = "stop" /\ Goes(n, "stopped")
      /\ UNCHANGED <<tenant, canon, foreign, dbHolder, doomed>>
      /\ pub' = [pub EXCEPT ![n].up = FALSE] \/ pub' = pub
    BY DEF StopBox, Doing
<1>2. /\ pub'[n] \in Boxes /\ pub' = [pub EXCEPT ![n] = pub'[n]]
      /\ pub'[n].port = pub[n].port
    BY <1>1, Typed DEF PortsInd, Boxes
<1>3. OwnMove(n) /\ tenant'[n] = tenant[n] /\ chore'[n].at = "stopped"
    BY <1>1, <1>2, GoesOn, Stays, Names DEF OwnMove
<1>4. Sorted(n)' /\ Keeps(n)'
    BY <1>1, <1>2, <1>3, Was DEF Sorted, Keeps, Removable, Fits, InStep, OwnPort, Held,
                     RunSteps, RmSteps, Live
<1> QED
    BY <1>3, <1>4, OwnStep

LEMMA StopEndsKeeps ==
    ASSUME PortsInd, NEW n \in Neighbours, StopEnds(n) PROVE PortsInd'
<1>1. /\ OwnMove(n)
      /\ tenant'[n].status = "Stopped" /\ tenant'[n].dyn = tenant[n].dyn
      /\ pub'[n] = pub[n] /\ chore'[n].at = "idle"
    BY Sets, Finishes, Stays, Names DEF StopEnds, OwnMove
<1>2. /\ doomed' = doomed /\ dbHolder' # n /\ chore[n].at = "stopped" /\ canon'.of # n
    BY NobodysMutex, FreshTypes DEF StopEnds, Doing, ForwardWithout
<1>3. Sorted(n)' /\ Keeps(n)'
    BY <1>1, <1>2, Was DEF Sorted, Keeps, Removable, Fits, InStep, OwnPort, Held,
                     RunSteps, RmSteps, Live
<1> QED
    BY <1>1, <1>3, OwnStep

LEMMA StartBeginsKeeps ==
    ASSUME PortsInd, NEW n \in Neighbours, StartBegins(n) PROVE PortsInd'
<1>1. /\ OwnMove(n)
      /\ tenant'[n].status = "Starting" /\ tenant'[n].dyn = tenant[n].dyn
      /\ pub'[n] = pub[n] /\ chore'[n].at = "start"
    BY Sets, GoesOn, Stays, Names DEF StartBegins, OwnMove
<1>2. /\ canon' = canon /\ doomed' = doomed /\ dbHolder' # n
      /\ chore[n].at = "idle" /\ tenant[n].status = "Stopped"
    BY NobodysMutex DEF StartBegins, Doing, StatusOf
<1>3. Sorted(n)' /\ Keeps(n)'
    BY <1>1, <1>2, Was DEF Sorted, Keeps, Removable, Fits, InStep, OwnPort, Held,
                     RunSteps, RmSteps, Live
<1> QED
    BY <1>1, <1>3, OwnStep

LEMMA StartBoxKeeps ==
    ASSUME PortsInd, NEW n \in Neighbours, StartBox(n) PROVE PortsInd'
<1>1. /\ chore[n].at = "start" /\ canon' = canon
      /\ UNCHANGED <<canon, foreign, dbHolder, doomed>>
    BY DEF StartBox, Doing
<1>2. CASE pub' = [pub EXCEPT ![n].up = TRUE] /\ Goes(n, "started") /\ tenant' = tenant
    <2>1. /\ pub'[n] \in Boxes /\ pub' = [pub EXCEPT ![n] = pub'[n]]
          /\ pub'[n].port = pub[n].port /\ pub'[n].up
        BY <1>2, Typed DEF PortsInd, Boxes
    <2>2. OwnMove(n) /\ tenant'[n] = tenant[n] /\ chore'[n].at = "started"
        BY <1>1, <1>2, <2>1, GoesOn, Stays, Names DEF OwnMove
    <2>3. Sorted(n)' /\ Keeps(n)'
        BY <1>1, <2>1, <2>2, Was DEF Sorted, Keeps, Removable, Fits, InStep, OwnPort, Held,
                     RunSteps, RmSteps, Live
    <2> QED
        BY <2>2, <2>3, OwnStep
<1>3. ASSUME NEW up \in BOOLEAN, pub' = [pub EXCEPT ![n].up = @ \/ up],
             tenant' = [tenant EXCEPT ![n].status = IF Mutex THEN "Stopped" ELSE @],
             Ends(n)
      PROVE  PortsInd'
    <2>1. /\ pub'[n] \in Boxes /\ pub' = [pub EXCEPT ![n] = pub'[n]]
          /\ pub'[n].port = pub[n].port
        BY <1>3, Typed DEF PortsInd, Boxes
    <2>2. /\ tenant'[n] \in Tenants /\ tenant' = [tenant EXCEPT ![n] = tenant'[n]]
          /\ tenant'[n].dyn = tenant[n].dyn
          /\ tenant'[n].status = IF Mutex THEN "Stopped" ELSE tenant[n].status
        BY <1>3, Typed, Names DEF PortsInd, Tenants
    <2>3. OwnMove(n) /\ chore'[n].at = "idle"
        BY <1>1, <1>3, <2>1, <2>2, Finishes DEF OwnMove
    <2>4. Sorted(n)' /\ Keeps(n)'
        BY <1>1, <2>1, <2>2, <2>3, Was, NobodysMutex
           DEF Sorted, Keeps, Removable, Fits, InStep, OwnPort, Held, RunSteps, RmSteps, Live
    <2> QED
        BY <2>3, <2>4, OwnStep
<1>4. CASE /\ \E up \in BOOLEAN : pub' = [pub EXCEPT ![n].up = @ \/ up]
           /\ tenant' = [tenant EXCEPT ![n].status = IF Mutex THEN "Stopped" ELSE @]
           /\ Ends(n)
    BY <1>3, <1>4
<1> QED
    BY <1>2, <1>4 DEF StartBox

LEMMA StartEndsKeeps ==
    ASSUME PortsInd, NEW n \in Neighbours, StartEnds(n) PROVE PortsInd'
<1>1. /\ OwnMove(n)
      /\ tenant'[n].status = "Running" /\ tenant'[n].dyn = tenant[n].dyn
      /\ pub'[n] = pub[n] /\ chore'[n].at = "idle"
    BY Sets, Finishes, Stays, Names DEF StartEnds, OwnMove
<1>2. canon' = canon /\ doomed' = doomed /\ dbHolder' # n /\ chore[n].at = "started"
    BY NobodysMutex DEF StartEnds, Doing
<1>3. Sorted(n)' /\ Keeps(n)'
    BY <1>1, <1>2, Was DEF Sorted, Keeps, Removable, Fits, InStep, OwnPort, Held,
                     RunSteps, RmSteps, Live
<1> QED
    BY <1>1, <1>3, OwnStep

----------------------------------------------------------------------------
(* assign and rm.                                                          *)

LEMMA AssignBeginsKeeps ==
    ASSUME PortsInd, NEW n \in Neighbours, AssignBegins(n) PROVE PortsInd'
<1>1. /\ chore'[n] \in Chores /\ chore' = [chore EXCEPT ![n] = chore'[n]]
      /\ chore'[n].at = "assign" /\ chore'[n].was = tenant[n].status
    <2>1. chore \in [Neighbours -> Chores] /\ tenant[n].status \in PortStatus /\ "assign" \in Steps
        BY Typed, Names DEF PortsInd, Tenants
    <2>2. chore' = [chore EXCEPT ![n] = [chore[n] EXCEPT !.at = "assign", !.was = tenant[n].status]]
        BY DEF AssignBegins, StatusOf
    <2> QED
        BY <2>1, <2>2 DEF Chores
<1>2. /\ OwnMove(n)
      /\ tenant'[n].status = "Assigning" /\ tenant'[n].dyn = tenant[n].dyn /\ pub'[n] = pub[n]
    BY <1>1, Sets, Stays, Names DEF AssignBegins, OwnMove
<1>3. /\ canon' = canon /\ doomed' = doomed /\ dbHolder' # n
      /\ chore[n].at = "idle" /\ tenant[n].status \in Live \union {"Assigning"}
    BY NobodysMutex DEF AssignBegins, Doing, StatusOf
<1>4. Sorted(n)' /\ Keeps(n)'
    BY <1>1, <1>2, <1>3, Was DEF Sorted, Keeps, Removable, Fits, InStep, OwnPort, Held,
                     RunSteps, RmSteps, Live
<1> QED
    BY <1>2, <1>4, OwnStep

LEMMA AssignOverKeeps ==
    ASSUME PortsInd, NEW n \in Neighbours, AssignEnds(n) \/ AssignFails(n) PROVE PortsInd'
<1> DEFINE s == IF Mutex THEN chore[n].was ELSE "Assigning"
<1>1. SetStatus(n, s) /\ s \in PortStatus
    BY Typed, Names DEF AssignEnds, AssignFails, PortsInd, Chores
<1>2. /\ OwnMove(n)
      /\ tenant'[n].status = s /\ tenant'[n].dyn = tenant[n].dyn
      /\ pub'[n] = pub[n] /\ chore'[n].at = "idle"
    <2> HIDE DEF s
    <2> QED
        BY <1>1, Sets, Finishes, Stays DEF AssignEnds, AssignFails, OwnMove
<1>3. canon' = canon /\ doomed' = doomed /\ dbHolder' = dbHolder /\ chore[n].at = "assign"
    BY DEF AssignEnds, AssignFails, Doing
<1>4. Sorted(n)' /\ Keeps(n)'
    BY <1>2, <1>3, Was, NobodysMutex
       DEF Sorted, Keeps, Removable, Fits, InStep, OwnPort, Held, RunSteps, RmSteps, Live
<1> QED
    BY <1>2, <1>4, OwnStep

LEMMA RmReadsKeeps ==
    ASSUME PortsInd, NEW n \in Neighbours, RmReads(n) PROVE PortsInd'
<1> DEFINE at == IF StatusOf(n) \in Live THEN "mark" ELSE "remove"
<1>1. /\ chore'[n] \in Chores /\ chore' = [chore EXCEPT ![n] = chore'[n]]
      /\ chore'[n].at = at
    <2>1. chore \in [Neighbours -> Chores] /\ tenant[n].status \in PortStatus /\ at \in Steps
        BY Typed, Names DEF PortsInd, Tenants, RmSteps
    <2>2. chore' = [chore EXCEPT ![n] = [chore[n] EXCEPT !.was = tenant[n].status, !.at = at]]
        BY DEF RmReads, StatusOf
    <2> HIDE DEF at
    <2> QED
        BY <2>1, <2>2 DEF Chores
<1>2. OwnMove(n) /\ tenant'[n] = tenant[n]
    BY <1>1, Stays DEF RmReads, OwnMove
<1>3. n \in doomed' /\ tenant[n].status # "none" /\ dbHolder' # n
    BY NobodysMutex DEF RmReads, StatusOf
<1>4. /\ tenant[n].status = "Provisioning" <=> tenant[n].dyn = Nowhere
      /\ chore'[n].at = "mark" => tenant[n].status \in Live
      /\ chore'[n].at \in {"mark", "remove"}
    BY <1>1, <1>3, Was DEF Sorted, Removable, Fits, OwnPort, StatusOf
<1>5. Sorted(n)' /\ Keeps(n)'
    BY <1>2, <1>3, <1>4 DEF Sorted, Keeps, Removable, RunSteps, Live
<1> QED
    BY <1>2, <1>5, OwnStep

LEMMA RmMarksKeeps ==
    ASSUME PortsInd, NEW n \in Neighbours, RmMarks(n) PROVE PortsInd'
<1>1. chore[n].at = "mark" /\ n \in doomed /\ doomed' = doomed /\ dbHolder' # n
    BY Was, NobodysMutex DEF RmMarks, Doing, Sorted, Fits, InStep, RmSteps
<1>2. /\ tenant'[n] \in Tenants /\ tenant' = [tenant EXCEPT ![n] = tenant'[n]]
      /\ tenant'[n].status \in {tenant[n].status, "Stopping"} /\ tenant'[n].dyn = tenant[n].dyn
      /\ canon' \in {canon, ForwardWithout({n})}
    <2>1. CASE SetStatus(n, "Stopping") /\ UNCHANGED canon
        BY <2>1, Sets, Names
    <2>2. CASE Leaves(n, "Stopping")
        BY <2>2, Sets, Names DEF Leaves, ForwardWithout
    <2>3. CASE UNCHANGED <<tenant, canon>>
        BY <2>3, Stays
    <2> QED
        BY <2>1, <2>2, <2>3 DEF RmMarks
<1>3. OwnMove(n) /\ chore'[n].at = "remove"
    BY <1>2, GoesOn, Stays, Names DEF RmMarks, OwnMove, RmSteps
<1>4. Sorted(n)' /\ Keeps(n)'
    BY <1>1, <1>2, <1>3, Was DEF Sorted, Keeps, Removable, RunSteps
<1> QED
    BY <1>3, <1>4, OwnStep

LEMMA RmBoxKeeps ==
    ASSUME PortsInd, NEW n \in Neighbours, RmBox(n) PROVE PortsInd'
<1>1. chore[n].at = "remove" /\ n \in doomed /\ doomed' = doomed /\ dbHolder' = dbHolder
    BY Was DEF RmBox, Doing, Sorted, Fits, InStep, RmSteps
<1>2. pub'[n] \in Boxes /\ pub' = [pub EXCEPT ![n] = pub'[n]]
    BY Typed, FreshTypes DEF RmBox, PortsInd
<1>3. OwnMove(n) /\ chore'[n].at = "removed" /\ tenant'[n] = tenant[n]
    BY <1>2, GoesOn, Stays, Names DEF RmBox, OwnMove, RmSteps
<1>4. Sorted(n)' /\ Keeps(n)'
    BY <1>1, <1>3, Was DEF Sorted, Keeps, Removable, RunSteps
<1> QED
    BY <1>3, <1>4, OwnStep

LEMMA RmDeletesKeeps ==
    ASSUME PortsInd, NEW n \in Neighbours, RmDeletes(n) PROVE PortsInd'
<1>1. /\ tenant'[n] \in Tenants /\ tenant' = [tenant EXCEPT ![n] = tenant'[n]]
      /\ tenant'[n].status = "none" /\ tenant'[n].dyn = Nowhere
    BY Typed, FreshTypes DEF RmDeletes, PortsInd
<1>2. OwnMove(n) /\ chore'[n].at = "idle" /\ pub'[n] = pub[n]
    BY <1>1, Finishes, Stays DEF RmDeletes, OwnMove
<1>3. canon'.of # n /\ n \notin doomed' /\ dbHolder' # n
    BY NobodysMutex, FreshTypes DEF RmDeletes, ForwardWithout
<1>4. Sorted(n)' /\ Keeps(n)'
    BY <1>1, <1>2, <1>3 DEF Sorted, Keeps, Fits, InStep, OwnPort, Held, RunSteps, RmSteps, Live
<1> QED
    BY <1>2, <1>4, OwnStep

----------------------------------------------------------------------------
(* checkout and --none, a reboot, and other programs.                      *)

\* Rows that were checked out, and are all of those a forwarder belongs to that
\* goes, become Running.
LEMMA ClearsKeeps ==
    ASSUME PortsInd, NEW S \in SUBSET Neighbours, Clears(S), Mutex,
           UNCHANGED <<pub, foreign, chore, doomed>>,
           dbHolder' = dbHolder \/ (dbHolder' \in S /\ StatusOf(dbHolder') \in Live)
    PROVE  PortsInd'
<1> DEFINE out == {m \in S : StatusOf(m) = "CheckedOut"}
<1>1. ASSUME NEW m \in Neighbours
      PROVE  /\ tenant'[m] \in Tenants /\ tenant'[m].dyn = tenant[m].dyn
             /\ tenant'[m].status = IF m \in out THEN "Running" ELSE tenant[m].status
    BY Typed, Names DEF PortsInd, Clears, Tenants
<1>2. tenant' = [m \in Neighbours |-> tenant'[m]]
    BY DEF Clears
<1>3. canon' = IF canon.of \in out THEN NoForward ELSE canon
    BY DEF Clears, ForwardWithout
<1>4. dbHolder' = dbHolder \/ (dbHolder' \in S /\ tenant[dbHolder'].status \in Live)
    BY DEF StatusOf
<1>5. \A m \in Neighbours : m \in out => tenant[m].status = "CheckedOut"
    BY DEF StatusOf
<1>6. \A m \in S : tenant[m].status \in Live => tenant'[m].status = "Running"
    BY <1>1 DEF StatusOf, Live
<1> HIDE DEF out
<1>7. PortsTypeOK'
    <2>1. tenant' \in [Neighbours -> Tenants] /\ canon' \in Forwards
        BY <1>1, <1>2, <1>3, Typed, FreshTypes DEF PortsInd
    <2>2. dbHolder' \in Neighbours \union {Nowhere}
        BY <1>4, Typed DEF PortsInd
    <2> QED
        BY <2>1, <2>2, Typed DEF PortsInd, PortsTypeOK, Tenants, Boxes, Chores, Forwards
<1>8. ASSUME NEW m \in Neighbours PROVE Sorted(m)' /\ Keeps(m)'
    <2>1. Sorted(m) /\ pub'[m] = pub[m] /\ chore'[m] = chore[m] /\ doomed' = doomed
        BY Was
    <2>2. Keeps(m)'
        <3>1. tenant[m].status \in Live => tenant[m].dyn # Nowhere
            BY <2>1 DEF Sorted, Removable, Fits, OwnPort, Live
        <3> QED
            BY <1>1, <1>4, <1>6, <2>1, <3>1, NobodysMutex DEF Keeps
    <2>3. m \in out => canon'.of # m
        BY <1>3, FreshTypes
    <2>4. m \notin out => (canon'.of = m <=> canon.of = m) /\ (canon.of = m => canon' = canon)
        BY <1>3, FreshTypes
    <2>5. Sorted(m)'
        BY <1>1, <1>5, <2>1, <2>3, <2>4
           DEF Sorted, Removable, Fits, InStep, OwnPort, Held, RunSteps, RmSteps, Live
    <2> QED
        BY <2>2, <2>5
<1> QED
    BY <1>7, <1>8 DEF PortsInd

LEMMA CheckoutBindsKeeps ==
    ASSUME PortsInd, NEW n \in Neighbours, CheckoutBinds(n) PROVE PortsInd'
<1>1. /\ dbHolder = n /\ dbHolder' = Nowhere
      /\ UNCHANGED <<pub, foreign, chore, doomed>>
    BY DEF CheckoutBinds
<1>2. CASE UNCHANGED <<tenant, canon>>
    BY <1>1, <1>2, Names DEF PortsInd, PortsTypeOK, Sorted, Keeps, Removable, Fits, InStep, OwnPort, Held
<1>3. CASE /\ ~Bound(Canonical)
           /\ canon' = [of |-> n, to |-> tenant[n].dyn]
           /\ SetStatus(n, "CheckedOut")
    <2>1. canon = NoForward
        BY <1>3 DEF Bound
    <2>2. /\ tenant'[n] \in Tenants /\ tenant' = [tenant EXCEPT ![n] = tenant'[n]]
          /\ tenant'[n].status = "CheckedOut" /\ tenant'[n].dyn = tenant[n].dyn
        BY <1>3, Sets, Names
    <2>3. tenant[n].dyn # Nowhere /\ (n \notin doomed => tenant[n].status = "Running")
        BY <1>1, Was DEF Keeps
    <2>4. canon' \in Forwards /\ canon'.of = n /\ canon'.to = tenant[n].dyn
        BY <1>3, <2>3, Typed DEF PortsInd, Tenants, Forwards
    <2>5. PortsTypeOK'
        BY <1>1, <2>2, <2>4, Typed, Names DEF PortsInd, PortsTypeOK, Tenants, Boxes, Chores, Forwards
    <2>6. ASSUME NEW m \in Neighbours PROVE Sorted(m)' /\ Keeps(m)'
        <3>1. pub'[m] = pub[m] /\ chore'[m] = chore[m] /\ doomed' = doomed /\ dbHolder' # m
            BY <1>1, Names
        <3>2. CASE m = n
            BY <2>2, <2>3, <2>4, <3>1, <3>2, Was
               DEF Sorted, Keeps, Removable, Fits, InStep, OwnPort, Held, RunSteps, RmSteps, Live
        <3>3. CASE m # n
            <4>1. tenant'[m] = tenant[m] /\ canon.of # m /\ canon'.of # m
                BY <2>1, <2>2, <2>4, <3>3, Typed, FreshTypes DEF PortsInd
            <4> QED
                BY <3>1, <4>1, Was DEF Sorted, Keeps, Removable, Fits, InStep, OwnPort, Held
        <3> QED
            BY <3>2, <3>3
    <2> QED
        BY <2>5, <2>6 DEF PortsInd
<1> QED
    BY <1>2, <1>3 DEF CheckoutBinds

LEMMA CheckoutClearsKeeps ==
    ASSUME PortsInd, NEW n \in Neighbours, CheckoutClears(n) PROVE PortsInd'
<1>1. /\ Clears(Neighbours) /\ Mutex /\ UNCHANGED <<pub, foreign, chore, doomed>>
      /\ dbHolder' \in Neighbours /\ StatusOf(dbHolder') \in Live
    BY DEF CheckoutClears
<1> QED
    BY <1>1, ClearsKeeps

LEMMA ReleasesKeeps ==
    ASSUME PortsInd, NEW n \in Neighbours, Releases(n) PROVE PortsInd'
<1>1. /\ Clears({n}) /\ Mutex /\ UNCHANGED <<pub, foreign, chore, doomed>>
      /\ dbHolder' = dbHolder /\ {n} \in SUBSET Neighbours
    BY DEF Releases
<1> QED
    BY <1>1, ClearsKeeps

LEMMA PortsRebootKeeps ==
    ASSUME PortsInd, PortsReboot PROVE PortsInd'
<1> DEFINE out == {m \in Neighbours : StatusOf(m) = "CheckedOut"}
<1>1. /\ canon' \in {[of |-> m, to |-> tenant[m].dyn] : m \in out} \union {NoForward}
      /\ tenant' = [m \in Neighbours |->
                      IF m \in out /\ canon'.of # m THEN [tenant[m] EXCEPT !.status = "Running"]
                      ELSE tenant[m]]
      /\ chore' = [m \in Neighbours |-> NoChore]
      /\ dbHolder' = Nowhere
      /\ UNCHANGED <<pub, foreign, doomed>>
    BY DEF PortsReboot
<1>2. \A m \in Neighbours : m \in out <=> tenant[m].status = "CheckedOut"
    BY DEF StatusOf
<1>3. \A m \in Neighbours : m \in out => tenant[m].dyn \in Dynamic
    BY <1>2, Was, Typed DEF PortsInd, Tenants, Sorted, Removable, Fits, OwnPort
<1>4. canon' \in Forwards
    BY <1>1, <1>3 DEF Forwards
<1>5. \A m \in Neighbours : canon'.of = m => m \in out /\ canon'.to = tenant[m].dyn
    BY <1>1, FreshTypes
<1>6. ASSUME NEW m \in Neighbours
      PROVE  /\ tenant'[m] \in Tenants /\ tenant'[m].dyn = tenant[m].dyn
             /\ tenant'[m].status = IF m \in out /\ canon'.of # m THEN "Running" ELSE tenant[m].status
    <2> HIDE DEF out
    <2> QED
        BY <1>1, Typed, Names DEF PortsInd, Tenants
<1> HIDE DEF out
<1>7. PortsTypeOK'
    <2>1. tenant' \in [Neighbours -> Tenants] /\ chore' \in [Neighbours -> Chores]
        BY <1>1, <1>6, FreshTypes
    <2> QED
        BY <1>1, <1>4, <2>1, Typed DEF PortsInd, PortsTypeOK, Tenants, Boxes, Chores, Forwards
<1>8. ASSUME NEW m \in Neighbours PROVE Sorted(m)' /\ Keeps(m)'
    <2>1. /\ pub'[m] = pub[m] /\ chore'[m].at = "idle" /\ doomed' = doomed /\ dbHolder' # m
        BY <1>1, FreshTypes, Names
    <2> QED
        BY <1>2, <1>5, <1>6, <2>1, Was
           DEF Sorted, Keeps, Removable, Fits, InStep, OwnPort, Held, RunSteps, RmSteps, Live
<1> QED
    BY <1>7, <1>8 DEF PortsInd

\* What does not touch the instances.
LEMMA OthersKeep ==
    ASSUME PortsInd, OtherBinds \/ OtherFrees \/ UNCHANGED portvars PROVE PortsInd'
<1>1. UNCHANGED <<tenant, pub, canon, chore, dbHolder, doomed>> /\ foreign' \subseteq HostPorts
    BY Typed DEF PortsInd, OtherBinds, OtherFrees, portvars
<1> QED
    BY <1>1 DEF PortsInd, PortsTypeOK, Sorted, Keeps, Removable, Fits, InStep, OwnPort, Held

----------------------------------------------------------------------------
(* The theorems.                                                           *)

LEMMA PortsIndNext == PortsInd /\ [PortsNext]_portvars => PortsInd'
<1> SUFFICES ASSUME PortsInd, [PortsNext]_portvars PROVE PortsInd'
    OBVIOUS
<1>1. ASSUME NEW n \in Neighbours,
             RunInserts(n) \/ RunPicks(n) \/ RunBoots(n) \/ RunRecords(n) \/ RunCleans(n)
      PROVE  PortsInd'
    BY <1>1, RunInsertsKeeps, RunPicksKeeps, RunBootsKeeps, RunRecordsKeeps, RunCleansKeeps
<1>2. ASSUME NEW n \in Neighbours,
             \/ StopBegins(n) \/ StopBox(n) \/ StopEnds(n)
             \/ StartBegins(n) \/ StartBox(n) \/ StartEnds(n)
      PROVE  PortsInd'
    BY <1>2, StopBeginsKeeps, StopBoxKeeps, StopEndsKeeps, StartBeginsKeeps, StartBoxKeeps,
       StartEndsKeeps
<1>3. ASSUME NEW n \in Neighbours,
             \/ AssignBegins(n) \/ AssignEnds(n) \/ AssignFails(n)
             \/ RmReads(n) \/ RmMarks(n) \/ RmBox(n) \/ RmDeletes(n)
      PROVE  PortsInd'
    BY <1>3, AssignBeginsKeeps, AssignOverKeeps, RmReadsKeeps, RmMarksKeeps, RmBoxKeeps,
       RmDeletesKeeps
<1>4. ASSUME NEW n \in Neighbours, CheckoutClears(n) \/ CheckoutBinds(n) \/ Releases(n)
      PROVE  PortsInd'
    BY <1>4, CheckoutClearsKeeps, CheckoutBindsKeeps, ReleasesKeeps
<1> QED
    BY <1>1, <1>2, <1>3, <1>4, PortsRebootKeeps, OthersKeep DEF PortsNext

\* The rows, the containers, the forwarder and the requests are always well
\* typed (HostPorts: allocate_dynamic_port, create_and_start, checkout_handler,
\* and the handlers that change a row while ports are held).
THEOREM PortsTypeCorrect == PortsSpec => []PortsTypeOK
<1>1. PortsInd => PortsTypeOK
    BY DEF PortsInd
<1> QED
    BY <1>1, PortsIndInit, PortsIndNext, PTL DEF PortsSpec

\* Whoever the rows call running has its own dynamic port and the canonical port
\* leads to whoever is checked out, whatever the number of projects and ports,
\* with any programs on the host, failing boots and stops, and daemons that die
\* at any step; only an instance that somebody has asked to remove is exempt.
THEOREM PortsAreHome == PortsSpec => []PortsLeadHome
BY PortsIndInit, PortsIndNext, PortsIndHome, PTL DEF PortsSpec

----------------------------------------------------------------------------
(***************************************************************************)
(* AssignSteps, for any worktrees, directories, services and strategies.   *)
(*                                                                         *)
(* What holds between requests is not inductive.  StepsFit says where a    *)
(* request is; ServicesSee, Built and RunsBuilt say of the services what a *)
(* request makes true step by step and the next one may rely on, whether   *)
(* the last one was finished or given up; Classified says what the request *)
(* at work has decided to build.                                           *)
(***************************************************************************)
Early == {"check", "stop", "switch", "sync", "mount"}
Late  == {"recreate", "build", "start", "health", "final"}
Back  == {"uncheck", "unmount", "unstart", "unfinal"}

\* Where a request is, and that the worktree of the row, or the one about to
\* be, is there.
StepsFit ==
    /\ move.pc = "free" <=> slot.status \in {"absent", "running", "stopped"}
    /\ move.pc \in Early \union Late => slot.status = "assigning" /\ move.to \in Checkout
    /\ move.pc \in Back => slot.status = "unassigning"
    /\ move.pc \in {"sync", "mount"} => move.to \in checkouts
    /\ move.pc \in Late => slot.worktree = move.to.tree /\ workspace \in {move.to, NoMount}
    /\ slot.worktree # NoTree =>
          \E d \in Dirs : [tree |-> slot.worktree, dir |-> d] \in checkouts
    /\ slot.status = "absent" => slot.worktree = NoTree

\* Once they have been made again, the services see what is mounted.
ServicesSee ==
    "compose" \notin logged /\ move.pc \notin {"recreate", "unstart"} =>
        \A s \in Services : service[s].up => service[s].tree = workspace.tree

Home == IF slot.worktree = NoTree THEN Root ELSE slot.worktree

MountedHome ==
    slot.status \notin {"absent", "stopped"} /\ "mount" \notin logged => workspace.tree = Home

ToRebuild == {s \in Services : project.strategy[s] = "rebuild"}

Classified ==
    /\ move.pc \in (Early \ {"check"}) \union Late /\ move.listed => ToRebuild \subseteq move.rebuild
    /\ move.pc \in Late /\ ~move.listed => "services" \in logged

Built ==
    slot.worktree # NoTree /\ logged \intersect {"build", "services"} = {}
      /\ move.pc \notin {"recreate", "build"} =>
        \A s \in ToRebuild : image[s] = project.recipe[slot.worktree]

RunsBuilt ==
    slot.worktree # NoTree /\ logged \intersect {"build", "services", "compose"} = {}
      /\ move.pc \notin {"recreate", "build", "start"} =>
        \A s \in ToRebuild : service[s].up => service[s].image = project.recipe[slot.worktree]

\* Where a worktree is looked for.
LEMMA LeastNatural ==
  ASSUME NEW S \in SUBSET Nat, S # {}
  PROVE  \E i \in S : \A j \in S : i <= j
  <1> DEFINE R == OpToRel(<, Nat)
  <1>1. IsWellFoundedOn(R, Nat)
    BY NatLessThanWellFounded
  <1>2. \A i, j \in Nat : i < j => <<i, j>> \in R
    BY DEF OpToRel
  <1> HIDE DEF R
  <1>3. PICK i \in S : \A j \in S : ~(<<j, i>> \in R)
    BY <1>1, WFMin
  <1>4. \A j \in S : ~(j < i)
    BY <1>2, <1>3
  <1>5. \A j \in S : i <= j
    BY <1>4
  <1> QED
    BY <1>5

LEMMA FirstOfIs ==
  ASSUME NEW choices \in Seq(Dirs \union {NoTree}),
         NEW k \in 1 .. Len(choices), choices[k] # NoTree
  PROVE  \E i \in 1 .. Len(choices) :
            /\ FirstOf(choices) = choices[i] /\ choices[i] # NoTree
            /\ \A j \in 1 .. i - 1 : choices[j] = NoTree
  <1> DEFINE known == {i \in 1 .. Len(choices) : choices[i] # NoTree}
             first == CHOOSE i \in known : \A j \in known : i <= j
  <1>1. known \in SUBSET Nat /\ known # {}
    OBVIOUS
  <1>2. \E i \in known : \A j \in known : i <= j
    BY <1>1, LeastNatural
  <1>3. first \in known /\ \A j \in known : first <= j
    BY <1>2
  <1>4. FirstOf(choices) = choices[first]
    BY DEF FirstOf
  <1> HIDE DEF first
  <1>5. \A j \in 1 .. first - 1 : choices[j] = NoTree
    BY <1>3
  <1> QED
    BY <1>3, <1>4, <1>5

LEMMA ListedIs ==
  ASSUME NEW w, NEW among
  PROVE  /\ Listed(w, among) \in Dirs \union {NoTree}
         /\ \A d \in Dirs : d \in among /\ [tree |-> w, dir |-> d] \in checkouts =>
              Listed(w, among) # NoTree /\ [tree |-> w, dir |-> Listed(w, among)] \in checkouts
  <1> DEFINE has == {i \in 1 .. Len(DirOrder) :
                        DirOrder[i] \in among /\ [tree |-> w, dir |-> DirOrder[i]] \in checkouts}
             first == CHOOSE i \in has : \A j \in has : i <= j
  <1>1. \A i \in 1 .. Len(DirOrder) : DirOrder[i] \in Dirs
    BY AssignConstantsOK
  <1>2. Listed(w, among) = IF has = {} THEN NoTree ELSE DirOrder[first]
    BY DEF Listed
  <1>3. has # {} => first \in has
    <2> SUFFICES ASSUME has # {} PROVE first \in has
      OBVIOUS
    <2>1. has \in SUBSET Nat
      OBVIOUS
    <2>2. \E i \in has : \A j \in has : i <= j
      BY <2>1, LeastNatural
    <2> QED
      BY <2>2
  <1> HIDE DEF first
  <1>4. \A d \in Dirs : d \in among /\ [tree |-> w, dir |-> d] \in checkouts => has # {}
    BY AssignConstantsOK
  <1>5. NoTree \notin Dirs
    BY AssignConstantsOK
  <1> QED
    BY <1>1, <1>2, <1>3, <1>4, <1>5

LEMMA DetectedIs ==
  /\ Detected \in LocalDirs \union {NoTree}
  /\ Detected # NoTree => \A c \in checkouts : c.dir \in LocalDirs => c.dir = Detected
  <1> DEFINE used == {c.dir : c \in checkouts} \intersect LocalDirs
  <1>1. IsFiniteSet(used)
    <2>1. DirOrder \in Surjection(1 .. Len(DirOrder), Dirs)
      BY AssignConstantsOK DEF Surjection
    <2>2. IsFiniteSet(1 .. Len(DirOrder))
      BY AssignConstantsOK, FS_Interval
    <2>3. IsFiniteSet(Dirs)
      BY <2>1, <2>2, FS_Surjection
    <2> QED
      BY <2>3, FS_Subset DEF Dirs
  <1>2. Cardinality(used) = 1 => \E d : used = {d}
    BY <1>1, FS_Singleton
  <1>3. Detected = IF Cardinality(used) = 1 THEN CHOOSE d \in used : TRUE ELSE NoTree
    BY DEF Detected
  <1> QED
    BY <1>2, <1>3

\* Assign finds or names a directory.
LEMMA AssignDirType == ASSUME NEW w PROVE AssignDir(w) \in Dirs
  <1> DEFINE choices == <<Detected, Listed(w, LocalDirs), Listed(w, OuterDirs), DirOrder[1]>>
  <1>1. DirOrder[1] \in Dirs /\ NoTree \notin Dirs
    BY AssignConstantsOK DEF Dirs
  <1>2. choices \in Seq(Dirs \union {NoTree})
    <2>1. Detected \in Dirs \union {NoTree}
      BY DetectedIs DEF Dirs
    <2>2. /\ Listed(w, LocalDirs) \in Dirs \union {NoTree}
          /\ Listed(w, OuterDirs) \in Dirs \union {NoTree}
      BY ListedIs
    <2> QED
      BY <1>1, <2>1, <2>2
  <1>3. 4 \in 1 .. Len(choices) /\ choices[4] # NoTree
    BY <1>1
  <1>4. \E i \in 1 .. Len(choices) : FirstOf(choices) = choices[i] /\ choices[i] # NoTree
    BY <1>2, <1>3, FirstOfIs
  <1> QED
    BY <1>2, <1>4 DEF AssignDir

\* Start finds a worktree that is there.
LEMMA StartFinds ==
  ASSUME OuterDirs = {}, AsTypeOK,
         NEW w \in Branches, NEW d \in Dirs, [tree |-> w, dir |-> d] \in checkouts
  PROVE  [tree |-> w, dir |-> StartDir(w)] \in checkouts
  <1> DEFINE choices == <<Detected, Listed(w, Dirs), DirOrder[1]>>
  <1>1. DirOrder[1] \in Dirs /\ NoTree \notin Dirs /\ Dirs = LocalDirs
    BY AssignConstantsOK DEF Dirs
  <1>2. choices \in Seq(Dirs \union {NoTree})
    <2>1. Detected \in Dirs \union {NoTree} /\ Listed(w, Dirs) \in Dirs \union {NoTree}
      BY <1>1, DetectedIs, ListedIs
    <2> QED
      BY <1>1, <2>1
  <1>3. Listed(w, Dirs) # NoTree /\ [tree |-> w, dir |-> Listed(w, Dirs)] \in checkouts
    BY ListedIs
  <1>4. Detected # NoTree => Detected = d
    BY <1>1, DetectedIs
  <1>5. PICK i \in 1 .. Len(choices) :
           /\ FirstOf(choices) = choices[i] /\ choices[i] # NoTree
           /\ \A j \in 1 .. i - 1 : choices[j] = NoTree
    <2>1. 2 \in 1 .. Len(choices) /\ choices[2] # NoTree
      BY <1>3
    <2> QED
      BY <1>2, <2>1, FirstOfIs
  <1>6. i \in {1, 2}
    BY <1>3, <1>5
  <1> QED
    BY <1>3, <1>4, <1>5, <1>6 DEF StartDir

----------------------------------------------------------------------------
\* Every step keeps the types, those of the checkouts on disk included.
LEMMA MountTypes ==
  /\ TheRoot \in Mount /\ NoMount \in Mount /\ Checkout \subseteq Mount
  /\ \A m \in Mount : m.tree \in Trees \union {NoTree}
  /\ \A c \in Checkout : c.tree \in Branches /\ c.tree # NoTree /\ c.dir \in Dirs
                         /\ c # NoMount /\ c # TheRoot
  /\ NoMount.tree = NoTree
  BY AssignConstantsOK DEF Mount, TheRoot, NoMount, Checkout, Trees

Moves == [pc : {"free"} \union Early \union Late \union Back, to : Mount, force : BOOLEAN,
          listed : BOOLEAN, restart : SUBSET Services, rebuild : SUBSET Services]
Slots == [branch : Trees \union {NoTree}, worktree : Branches \union {NoTree},
          status : {"absent", "running", "stopped", "assigning", "unassigning"}]
Running == [Services -> [up : BOOLEAN, tree : Trees \union {NoTree}, image : Recipes]]

Shaped ==
    /\ project \in [strategy : [Services -> AllStrategies], recipe : [Trees -> Recipes]]
    /\ checkouts \subseteq Checkout /\ marked \subseteq checkouts /\ filled \subseteq checkouts
    /\ slot \in Slots /\ workspace \in Mount /\ service \in Running
    /\ image \in [Services -> Recipes] /\ move \in Moves
    /\ logged \subseteq AllStepFaults

LEMMA AsTypes == AsTypeOK <=> Shaped
  BY DEF AsTypeOK, Shaped, Slots, Running, Moves, Early, Late, Back

LEMMA AsTypesNext == AsTypeOK' <=> Shaped'
  BY DEF AsTypeOK, Shaped, Slots, Running, Moves, Early, Late, Back

LEMMA NoMoveType == NoMove \in Moves
  BY MountTypes DEF NoMove, Moves

LEMMA AsInitType == AsInit => AsTypeOK
  <1> SUFFICES ASSUME AsInit PROVE AsTypeOK
    OBVIOUS
  <1>1. NoProject \in [strategy : [Services -> AllStrategies], recipe : [Trees -> Recipes]]
    BY AssignConstantsOK DEF NoProject, AllStrategies
  <1>2. slot \in Slots /\ service \in Running /\ image \in [Services -> Recipes]
    BY AssignConstantsOK DEF AsInit, Slots, Running
  <1> QED
    BY <1>1, <1>2, MountTypes, NoMoveType, AsTypes DEF AsInit, Shaped

LEMMA StartedType ==
  ASSUME AsTypeOK, NEW s \in Services
  PROVE  Started(s) \in [up : BOOLEAN, tree : Trees \union {NoTree}, image : Recipes]
  BY AsTypes, MountTypes DEF Started, Shaped

LEMMA RecreateType ==
  ASSUME AsTypeOK, NEW S, Recreate(S)
  PROVE  service' \in Running /\ logged' \subseteq AllStepFaults
  <1>1. CASE service' = [s \in Services |-> IF s \in S THEN Started(s) ELSE service[s]]
             /\ UNCHANGED logged
    BY <1>1, AsTypes, StartedType DEF Running, Shaped
  <1>2. CASE logged' = logged \union {"compose"} /\ UNCHANGED service
    BY <1>2, AsTypes DEF AllStepFaults, Shaped
  <1> QED
    BY <1>1, <1>2 DEF Recreate

\* A request goes on, or is given up.
LEMMA MoveGoes ==
  ASSUME AsTypeOK, NEW pc \in {"free"} \union Early \union Late \union Back, Go(pc)
  PROVE  /\ move' \in Moves /\ move'.pc = pc /\ move'.to = move.to
         /\ (move'.listed <=> move.listed)
         /\ move'.restart = move.restart /\ move'.rebuild = move.rebuild
  <1>1. move \in Moves
    BY AsTypes DEF Shaped
  <1>2. move' = [move EXCEPT !.pc = pc]
    BY DEF Go
  <1>3. move' \in Moves
    BY <1>1, <1>2 DEF Moves
  <1>4. /\ move'.pc = pc /\ move'.to = move.to
        /\ move'.restart = move.restart /\ move'.rebuild = move.rebuild
    BY <1>1, <1>2 DEF Moves
  <1>5. move'.listed <=> move.listed
    BY <1>1, <1>2 DEF Moves
  <1> QED
    BY <1>3, <1>4, <1>5

LEMMA Reverts ==
  ASSUME AsTypeOK, Revert
  PROVE  /\ slot' \in Slots /\ slot'.status = "running" /\ slot'.worktree = slot.worktree
         /\ slot'.branch = slot.branch /\ move' = NoMove /\ move' \in Moves
         /\ move'.pc = "free" /\ move'.to = NoMount
  BY AsTypes, NoMoveType DEF Revert, Slots, NoMove, Shaped

\* The row is written.
LEMMA SlotTypes ==
  ASSUME AsTypeOK
  PROVE  /\ \A s \in {"running", "stopped", "assigning", "unassigning"} :
               /\ [slot EXCEPT !.status = s] \in Slots
               /\ \A b \in Trees \union {NoTree} :
                     [slot EXCEPT !.branch = b, !.status = s] \in Slots
         /\ \A w \in Branches \union {NoTree} : [slot EXCEPT !.worktree = w] \in Slots
  BY AsTypes DEF Slots, Shaped

LEMMA AssignTypes ==
  ASSUME AsTypeOK, StepsFit,
         \/ \E w \in Branches, force \in BOOLEAN : AssignBegin(w, force)
         \/ AssignCheckFails \/ AssignClassify \/ AssignStop \/ AssignSwitch \/ AssignSync
         \/ AssignMount \/ AssignRecreate \/ AssignBuild \/ AssignStart \/ AssignHealth
         \/ AssignFinal
  PROVE  AsTypeOK'
  <1>a. Shaped
    BY AsTypes
  <1>b. Shaped' => AsTypeOK'
    BY AsTypesNext
  <1> USE <1>a, <1>b, MountTypes DEF Shaped
  <1>0. ASSUME NEW pc \in {"free"} \union Early \union Late \union Back, Go(pc)
        PROVE  move' \in Moves
    BY <1>0 DEF Go, Moves
  <1>1. ASSUME NEW w \in Branches, NEW force \in BOOLEAN, AssignBegin(w, force)
        PROVE  AsTypeOK'
    <2>1. [tree |-> w, dir |-> DirOrder[1]] \in Checkout
      BY AssignConstantsOK DEF Checkout, Dirs
    <2>2. move' \in Moves
      BY <1>1, <2>1 DEF AssignBegin, NoMove, Moves, Early
    <2> QED
      BY <1>1, <2>2, SlotTypes DEF AssignBegin, ondisk, inside
  <1>2. CASE AssignCheckFails
    BY <1>2, Reverts DEF AssignCheckFails, ondisk, inside
  <1>3. CASE AssignClassify
    <2>1. move' \in Moves
      <3>1. move.to.tree \in Branches
        BY <1>3 DEF AssignClassify, AtStep, StepsFit, Early
      <3>2. [move.to EXCEPT !.dir = AssignDir(move.to.tree)] \in Mount
        BY <3>1, <1>3, AssignDirType DEF AssignClassify, AtStep, StepsFit, Early, Checkout
      <3>3. \A w : Rebuilds(w) \subseteq Services /\ Restarts(w) \subseteq Services
        BY DEF Rebuilds, Restarts
      <3> QED
        <4>1. PICK names \in SUBSET Services :
                move' = [move EXCEPT !.pc = "stop", !.listed = names = Services,
                                     !.to.dir = AssignDir(move.to.tree),
                                     !.restart = Restarts(move.to.tree) \intersect names,
                                     !.rebuild = Rebuilds(move.to.tree) \intersect names]
          BY <1>3 DEF AssignClassify
        <4>2. move' = [pc |-> "stop", to |-> [move.to EXCEPT !.dir = AssignDir(move.to.tree)],
                       force |-> move.force, listed |-> (names = Services),
                       restart |-> Restarts(move.to.tree) \intersect names,
                       rebuild |-> Rebuilds(move.to.tree) \intersect names]
          BY <4>1 DEF Moves
        <4>3. (names = Services) \in BOOLEAN /\ move.force \in BOOLEAN
          BY DEF Moves
        <4> QED
          BY <3>2, <3>3, <4>2, <4>3 DEF Moves, Early
    <2> QED
      BY <1>3, <2>1 DEF AssignClassify, ondisk, inside
  <1>4. CASE AssignStop
    <2>1. service' \in Running
      <3>1. \/ service' = service
            \/ service' = [s \in Services |->
                   IF s \in Affected THEN [service[s] EXCEPT !.up = FALSE] ELSE service[s]]
        BY <1>4 DEF AssignStop
      <3>2. \A s \in Services :
              /\ service[s] \in [up : BOOLEAN, tree : Trees \union {NoTree}, image : Recipes]
              /\ [service[s] EXCEPT !.up = FALSE]
                    \in [up : BOOLEAN, tree : Trees \union {NoTree}, image : Recipes]
        BY DEF Running
      <3> QED
        BY <3>1, <3>2 DEF Running
    <2> QED
      BY <1>4, <1>0, <2>1 DEF AssignStop, ondisk, Early
  <1>5. CASE AssignSwitch
    BY <1>0, <1>5, Reverts DEF AssignSwitch, AtStep, StepsFit, inside, Early
  <1>6. CASE AssignSync
    BY <1>0, <1>6 DEF AssignSync, AtStep, StepsFit, inside, Early
  <1>7. CASE AssignMount
    <2>1. logged' \subseteq AllStepFaults /\ workspace' \in Mount
      <3>1. Unlisted \subseteq AllStepFaults /\ {"mount"} \subseteq AllStepFaults
        BY DEF Unlisted, AllStepFaults
      <3>2. move.to \in Mount
        BY DEF Moves
      <3> QED
        BY <1>7, <3>1, <3>2 DEF AssignMount
    <2>2. move.to.tree \in Branches
      BY <1>7 DEF AssignMount, AtStep, StepsFit, Early
    <2> QED
      BY <1>0, <1>7, <2>1, <2>2, SlotTypes DEF AssignMount, ondisk, Late
  <1>8. CASE AssignRecreate \/ AssignStart
    BY <1>0, <1>8, RecreateType DEF AssignRecreate, AssignStart, ondisk, Late
  <1>9. CASE AssignBuild
    <2>1. PICK bad \in SUBSET move.rebuild : AssignBuild!2!(bad)
      BY <1>9 DEF AssignBuild
    <2>2. workspace # NoMount => workspace.tree \in Trees
      BY <1>9 DEF AssignBuild, AtStep, StepsFit, Late, Trees
    <2>3. image' \in [Services -> Recipes]
      BY <2>1, <2>2
    <2>4. logged' \subseteq AllStepFaults
      BY <2>1 DEF AllStepFaults
    <2> QED
      BY <1>0, <1>9, <2>3, <2>4 DEF AssignBuild, ondisk, Late
  <1>10. CASE AssignHealth
    BY <1>0, <1>10, Reverts DEF AssignHealth, ondisk, inside, Late
  <1>11. CASE AssignFinal
    <2>1. move.to.tree \in Trees \union {NoTree}
      BY DEF Moves
    <2> QED
      BY <1>11, <2>1, SlotTypes, NoMoveType DEF AssignFinal, ondisk, inside
  <1> QED
    BY <1>1, <1>2, <1>3, <1>4, <1>5, <1>6, <1>7, <1>8, <1>9, <1>10, <1>11

LEMMA RestTypes ==
  ASSUME AsTypeOK, StepsFit,
         \/ RunInstance
         \/ UnassignBegin \/ UnassignCheck \/ UnassignMount \/ UnassignRestart \/ UnassignFinal
         \/ StopInstance \/ StartInstance
         \/ \E c \in Checkout \ checkouts : UserAdds(c)
         \/ \E c \in checkouts : UserRemoves(c)
  PROVE  AsTypeOK'
  <1>a. Shaped
    BY AsTypes
  <1>b. Shaped' => AsTypeOK'
    BY AsTypesNext
  <1> USE <1>a, <1>b, MountTypes DEF Shaped
  <1>0. ASSUME NEW pc \in {"free"} \union Early \union Late \union Back, Go(pc)
        PROVE  move' \in Moves
    BY <1>0 DEF Go, Moves
  <1>1. CASE RunInstance
    <2>1. PICK strategy \in [Services -> Strategies], recipe \in [Trees -> Recipes],
               branch \in {Root, NoTree} :
            /\ project' = [strategy |-> strategy, recipe |-> recipe]
            /\ slot' = [slot EXCEPT !.branch = branch, !.status = "running"]
      BY <1>1 DEF RunInstance
    <2>2. project' \in [strategy : [Services -> AllStrategies], recipe : [Trees -> Recipes]]
      BY <2>1, AssignConstantsOK
    <2>3. slot' \in Slots
      BY <2>1, SlotTypes DEF Trees
    <2>4. service' \in Running
      BY <1>1, AssignConstantsOK DEF RunInstance, Running, Trees
    <2> QED
      BY <1>1, <2>2, <2>3, <2>4 DEF RunInstance, ondisk
  <1>2. CASE UnassignBegin
    <2>1. move' \in Moves
      BY <1>2 DEF UnassignBegin, NoMove, Moves, Back
    <2> QED
      BY <1>2, <2>1, SlotTypes DEF UnassignBegin, ondisk, inside
  <1>3. CASE UnassignCheck
    BY <1>0, <1>3, Reverts DEF UnassignCheck, ondisk, inside, Back
  <1>4. CASE UnassignMount
    <2>1. logged' \subseteq AllStepFaults /\ workspace' \in Mount
      BY <1>4 DEF UnassignMount, AllStepFaults
    <2> QED
      BY <1>0, <1>4, <2>1, SlotTypes DEF UnassignMount, ondisk, Back
  <1>5. CASE UnassignRestart
    BY <1>0, <1>5, RecreateType DEF UnassignRestart, ondisk, Back
  <1>6. CASE UnassignFinal
    <2>1. PICK b \in {Root, NoTree} : slot' = [slot EXCEPT !.branch = b, !.status = "running"]
      BY <1>6 DEF UnassignFinal
    <2>2. slot' \in Slots
      BY <2>1, SlotTypes DEF Trees
    <2> QED
      BY <1>6, <2>2, NoMoveType DEF UnassignFinal, ondisk, inside
  <1>7. CASE StopInstance
    <2>1. service' \in Running
      BY <1>7 DEF StopInstance, Running
    <2> QED
      BY <1>7, <2>1, SlotTypes DEF StopInstance, ondisk
  <1>8. CASE StartInstance
    <2>1. workspace' \in Mount
      BY <1>8 DEF StartInstance
    <2>2. service' = [s \in Services |-> [up |-> TRUE, tree |-> workspace'.tree, image |-> image[s]]]
      BY <1>8 DEF StartInstance
    <2>3. service' \in Running
      BY <2>1, <2>2 DEF Running
    <2> QED
      BY <1>8, <2>1, <2>3, SlotTypes DEF StartInstance, ondisk
  <1>9. ASSUME NEW c \in Checkout, UserAdds(c) PROVE AsTypeOK'
    BY <1>9 DEF UserAdds, inside
  <1>10. ASSUME NEW c, UserRemoves(c) PROVE AsTypeOK'
    BY <1>10 DEF UserRemoves, inside
  <1> QED
    BY <1>1, <1>2, <1>3, <1>4, <1>5, <1>6, <1>7, <1>8, <1>9, <1>10

----------------------------------------------------------------------------
\* Every step leaves a request where it may be, and the worktree of the row on
\* disk: nobody removes what an instance has, and an assign makes the worktree
\* before it writes the row.
LEMMA FitKept ==
  ASSUME AsTypeOK, AsTypeOK', StepsFit, AsNext
  PROVE  StepsFit'
  <1>a. Shaped /\ Shaped'
    BY AsTypes, AsTypesNext
  <1> USE <1>a DEF StepsFit, AtStep
  <1>1. ASSUME NEW pc \in Early \union Late \union Back \union {"free"}, Go(pc)
        PROVE  move'.pc = pc /\ move'.to = move.to
    BY <1>1 DEF Go, Shaped, Moves
  <1>2. ASSUME UNCHANGED <<workspace, checkouts>>, Revert
        PROVE  StepsFit'
    BY <1>2, Reverts, MountTypes DEF Early, Late, Back
  <1>3. CASE RunInstance
    <2>1. slot'.status = "running" /\ slot'.worktree = slot.worktree
      BY <1>3 DEF RunInstance, Shaped, Slots
    <2> QED
      BY <1>3, <2>1 DEF RunInstance, ondisk, Early, Late, Back
  <1>4. ASSUME NEW w \in Branches, NEW force \in BOOLEAN, AssignBegin(w, force)
        PROVE  StepsFit'
    <2>1. slot'.status = "assigning" /\ slot'.worktree = slot.worktree
      BY <1>4 DEF AssignBegin, Shaped, Slots
    <2>2. move'.pc = "check" /\ move'.to = [tree |-> w, dir |-> DirOrder[1]]
      BY <1>4 DEF AssignBegin, NoMove
    <2>3. move'.to \in Checkout
      BY <2>2, AssignConstantsOK DEF Checkout, Dirs
    <2>4. move'.pc = "check" /\ UNCHANGED <<checkouts, workspace>>
      BY <1>4, <2>2 DEF AssignBegin, ondisk, inside
    <2> QED
      BY <2>1, <2>3, <2>4 DEF Early, Late, Back
  <1>5. CASE AssignCheckFails
    BY <1>2, <1>5 DEF AssignCheckFails, ondisk, inside
  <1>6. CASE AssignClassify
    <2>1. move'.pc = "stop" /\ move'.to = [move.to EXCEPT !.dir = AssignDir(move.to.tree)]
      BY <1>6 DEF AssignClassify, Shaped, Moves
    <2>2. move'.to \in Checkout
      BY <1>6, <2>1, AssignDirType DEF AssignClassify, Checkout, Early
    <2> QED
      BY <1>6, <2>1, <2>2 DEF AssignClassify, ondisk, inside, Early, Late, Back
  <1>7. CASE AssignStop \/ AssignRecreate \/ AssignBuild \/ AssignStart
    BY <1>1, <1>7 DEF AssignStop, AssignRecreate, AssignBuild, AssignStart, ondisk,
                      Early, Late, Back
  <1>8. CASE AssignSwitch
    BY <1>1, <1>2, <1>8 DEF AssignSwitch, inside, Early, Late, Back
  <1>9. CASE AssignSync
    BY <1>1, <1>9 DEF AssignSync, inside, Early, Late, Back
  <1>10. CASE AssignMount
    <2>1. /\ move'.pc = "recreate" /\ move'.to = move.to
          /\ slot'.status = slot.status /\ slot'.worktree = move.to.tree
          /\ workspace' \in {move.to, NoMount} /\ UNCHANGED checkouts
      BY <1>1, <1>10 DEF AssignMount, Shaped, Slots, ondisk, Late
    <2>2. move.to \in Checkout /\ move.to \in checkouts
      BY <1>10 DEF AssignMount, Early
    <2>3. \E d \in Dirs : [tree |-> move.to.tree, dir |-> d] \in checkouts
      BY <2>2 DEF Checkout
    <2> QED
      BY <1>10, <2>1, <2>2, <2>3 DEF AssignMount, Early, Late, Back
  <1>11. CASE AssignHealth
    BY <1>1, <1>2, <1>11 DEF AssignHealth, ondisk, inside, Early, Late, Back
  <1>12. CASE AssignFinal \/ UnassignFinal
    <2>1. slot'.status = "running" /\ slot'.worktree = slot.worktree
      BY <1>12 DEF AssignFinal, UnassignFinal, Shaped, Slots
    <2>2. move'.pc = "free" /\ UNCHANGED <<checkouts, workspace>>
      BY <1>12 DEF AssignFinal, UnassignFinal, NoMove, ondisk, inside
    <2> QED
      BY <2>1, <2>2 DEF Early, Late, Back
  <1>13. CASE UnassignBegin
    <2>1. slot'.status = "unassigning" /\ slot'.worktree = slot.worktree
      BY <1>13 DEF UnassignBegin, Shaped, Slots
    <2>2. move'.pc = "uncheck" /\ UNCHANGED <<checkouts, workspace>>
      BY <1>13 DEF UnassignBegin, NoMove, ondisk, inside
    <2> QED
      BY <2>1, <2>2 DEF Early, Late, Back
  <1>14. CASE UnassignCheck
    BY <1>1, <1>2, <1>14 DEF UnassignCheck, ondisk, inside, Early, Late, Back
  <1>15. CASE UnassignMount
    <2>1. slot'.status = slot.status /\ slot'.worktree = NoTree
      BY <1>15 DEF UnassignMount, Shaped, Slots
    <2> QED
      BY <1>1, <1>15, <2>1 DEF UnassignMount, ondisk, Early, Late, Back
  <1>16. CASE UnassignRestart
    BY <1>1, <1>16 DEF UnassignRestart, ondisk, Early, Late, Back
  <1>17. CASE StopInstance \/ StartInstance
    <2>1. slot'.status \in {"stopped", "running"} /\ slot'.worktree = slot.worktree
      BY <1>17 DEF StopInstance, StartInstance, Shaped, Slots
    <2>2. move.pc = "free" /\ UNCHANGED <<move, checkouts>>
      BY <1>17 DEF StopInstance, StartInstance, ondisk
    <2> QED
      BY <2>1, <2>2 DEF Early, Late, Back
  <1>18. ASSUME NEW c, UserAdds(c)
        PROVE  StepsFit'
    BY <1>18 DEF UserAdds, inside
  <1>19. ASSUME NEW c, UserRemoves(c)
        PROVE  StepsFit'
    <2>1. slot.worktree # NoTree =>
             \E d \in Dirs : [tree |-> slot.worktree, dir |-> d] \in checkouts \ {c}
      BY <1>19 DEF UserRemoves
    <2> QED
      BY <1>19, <2>1 DEF UserRemoves, inside
  <1> QED
    BY <1>3, <1>4, <1>5, <1>6, <1>7, <1>8, <1>9, <1>10, <1>11, <1>12, <1>13, <1>14,
       <1>15, <1>16, <1>17, <1>18, <1>19 DEF AsNext

\* up --force-recreate of S: it is logged, or what is up in S is as it was
\* just started.
LEMMA RecreateEffect ==
  ASSUME AsTypeOK, NEW S, Recreate(S)
  PROVE  \/ "compose" \in logged'
         \/ /\ logged' = logged
            /\ \A s \in Services : service'[s] = IF s \in S THEN Started(s) ELSE service[s]
  BY DEF Recreate

\* Steps that leave the services alone, or only bring some down.
Undisturbed ==
    /\ logged \subseteq logged' /\ workspace' = workspace
    /\ \A s \in Services : service'[s].up =>
          service[s].up /\ service'[s].tree = service[s].tree /\ service'[s].image = service[s].image

LEMMA SeeKept ==
  ASSUME AsTypeOK, StepsFit, ServicesSee, AsNext
  PROVE  ServicesSee'
  <1>a. Shaped
    BY AsTypes
  <1>b. ASSUME NEW pc \in Early \union Late \union Back \union {"free"}, Go(pc)
        PROVE  move'.pc = pc
    BY <1>a, <1>b DEF Go, Shaped, Moves
  <1>c. NoMove.pc = "free"
    BY DEF NoMove
  <1> USE DEF ServicesSee, AtStep
  <1>1. ASSUME Undisturbed, move.pc \notin {"recreate", "unstart"} PROVE ServicesSee'
    BY <1>1 DEF Undisturbed
  <1>2. CASE RunInstance
    BY <1>2 DEF RunInstance, TheRoot
  <1>3. ASSUME \/ \E w \in Branches, force \in BOOLEAN : AssignBegin(w, force)
               \/ AssignCheckFails \/ AssignClassify \/ AssignSwitch \/ AssignSync \/ AssignHealth
               \/ AssignFinal \/ UnassignBegin \/ UnassignCheck \/ UnassignFinal
               \/ \E c : UserAdds(c)
        PROVE  ServicesSee'
    BY <1>1, <1>3 DEF AssignBegin, AssignCheckFails, AssignClassify, AssignSwitch, AssignSync,
            AssignHealth, AssignFinal, UnassignBegin, UnassignCheck, UnassignFinal, UserAdds,
            Undisturbed, inside
  <1>4. ASSUME NEW c, UserRemoves(c)
        PROVE  ServicesSee'
    BY <1>4 DEF UserRemoves, inside
  <1>5. CASE AssignStop
    <2>1. \A s \in Services : service'[s].up =>
             service[s].up /\ service'[s].tree = service[s].tree /\ service'[s].image = service[s].image
      BY <1>5, <1>a DEF AssignStop, Shaped, Running
    <2> QED
      BY <1>1, <1>5, <2>1 DEF AssignStop, Undisturbed
  <1>6. CASE AssignBuild
    BY <1>1, <1>6 DEF AssignBuild, Undisturbed
  <1>7. CASE AssignMount \/ UnassignMount
    BY <1>7, <1>b DEF AssignMount, UnassignMount, Late, Back
  <1>8. ASSUME Recreate(Services), workspace' = workspace
        PROVE  ServicesSee'
    <2>1. \/ "compose" \in logged'
          \/ \A s \in Services : service'[s] = Started(s)
      BY <1>8, RecreateEffect
    <2>2. \A s \in Services : Started(s).tree = workspace'.tree
      BY <1>8 DEF Started
    <2> QED
      BY <2>1, <2>2
  <1>9. CASE AssignRecreate \/ UnassignRestart
    BY <1>8, <1>9 DEF AssignRecreate, UnassignRestart
  <1>10. CASE AssignStart
    <2>1. \/ "compose" \in logged'
          \/ /\ logged' = logged
             /\ \A s \in Services :
                  service'[s] = IF s \in Affected THEN Started(s) ELSE service[s]
      BY <1>10, RecreateEffect DEF AssignStart
    <2>2. workspace' = workspace /\ move.pc = "start"
      BY <1>10 DEF AssignStart
    <2>3. \A s \in Services : Started(s).tree = workspace.tree
      BY DEF Started
    <2>4. "compose" \notin logged' =>
             \A s \in Services : service'[s].up => service'[s].tree = workspace.tree
      BY <2>1, <2>2, <2>3
    <2> QED
      BY <2>2, <2>4
  <1>11. CASE StopInstance
    <2>1. \A s \in Services : ~service'[s].up
      BY <1>11, <1>a DEF StopInstance, Shaped, Running
    <2> QED
      BY <2>1
  <1>12. CASE StartInstance
    <2>1. \A s \in Services : service'[s].tree = workspace'.tree
      BY <1>12 DEF StartInstance
    <2> QED
      BY <2>1
  <1> QED
    BY <1>2, <1>3, <1>4, <1>5, <1>6, <1>7, <1>9, <1>10, <1>11, <1>12 DEF AsNext

\* What an assign has decided to build, it goes on to build.
LEMMA ClassifiedKept ==
  ASSUME AsTypeOK, StepsFit, Classified, AsNext
  PROVE  Classified'
  <1>a. Shaped
    BY AsTypes
  <1>b. ASSUME NEW pc \in Early \union Late \union Back \union {"free"}, Go(pc)
        PROVE  move'.pc = pc /\ (move'.listed <=> move.listed) /\ move'.rebuild = move.rebuild
    BY <1>a, <1>b DEF Go, Shaped, Moves
  <1>c. NoMove.pc = "free"
    BY DEF NoMove
  <1> USE DEF Classified, AtStep
  <1>1. ASSUME move'.pc \in {"free", "check"} \union Back PROVE Classified'
    BY <1>1 DEF Early, Late, Back
  <1>2. CASE RunInstance
    BY <1>2, <1>1 DEF RunInstance, StepsFit, Early, Late
  <1>3. CASE \/ \E w \in Branches, force \in BOOLEAN : AssignBegin(w, force)
             \/ AssignFinal \/ UnassignBegin \/ UnassignFinal
    BY <1>1, <1>3, <1>c DEF AssignBegin, AssignFinal, UnassignBegin, UnassignFinal, NoMove, Back
  <1>4. CASE AssignCheckFails \/ UnassignCheck \/ UnassignMount \/ UnassignRestart
    BY <1>1, <1>4, <1>b, <1>c DEF AssignCheckFails, UnassignCheck, UnassignMount, UnassignRestart,
                                  Revert, Back
  <1>5. CASE AssignClassify
    <2>1. PICK names \in SUBSET Services :
            move' = [move EXCEPT !.pc = "stop", !.listed = names = Services,
                                 !.to.dir = AssignDir(move.to.tree),
                                 !.restart = Restarts(move.to.tree) \intersect names,
                                 !.rebuild = Rebuilds(move.to.tree) \intersect names]
      BY <1>5 DEF AssignClassify
    <2>2. /\ move'.pc = "stop" /\ (move'.listed <=> names = Services)
          /\ move'.rebuild = Rebuilds(move.to.tree) \intersect names
      BY <2>1, <1>a DEF Shaped, Moves
    <2>3. ToRebuild' = ToRebuild /\ ToRebuild \subseteq Services
      BY <1>5 DEF AssignClassify, ToRebuild
    <2>4. ToRebuild \subseteq Rebuilds(move.to.tree)
      BY DEF Rebuilds, ToRebuild
    <2> QED
      BY <2>2, <2>3, <2>4 DEF Early, Late
  <1>6. ASSUME UNCHANGED <<project, logged>>,
               NEW pc \in (Early \ {"check"}) \union {"final"}, Go(pc),
               move.pc \in (Early \ {"check"}) \union Late, pc = "final" => move.pc \in Late
        PROVE  Classified'
    <2>1. ToRebuild' = ToRebuild
      BY <1>6 DEF ToRebuild
    <2>2. move'.pc = pc /\ (move'.listed <=> move.listed) /\ move'.rebuild = move.rebuild
      BY <1>6, <1>b DEF Late
    <2>3. move'.pc \in Late => move.pc \in Late
      BY <1>6, <2>2 DEF Early, Late
    <2> QED
      BY <1>6, <2>1, <2>2, <2>3
  <1>7. CASE AssignStop \/ AssignSwitch \/ AssignSync \/ AssignHealth
    BY <1>7, <1>6, <1>1, <1>c DEF AssignStop, AssignSwitch, AssignSync, AssignHealth, Revert, inside,
                            Early, Late
  <1>8. CASE AssignMount
    <2>1. ~move.listed => "services" \in logged'
      BY <1>8 DEF AssignMount, Unlisted
    <2> QED
      BY <1>8, <1>b, <2>1 DEF AssignMount, ToRebuild, Early, Late
  <1>9. CASE AssignRecreate \/ AssignBuild \/ AssignStart
    <2>1. logged \subseteq logged'
      BY <1>9 DEF AssignRecreate, AssignBuild, AssignStart, Recreate
    <2> QED
      BY <1>9, <1>b, <2>1 DEF AssignRecreate, AssignBuild, AssignStart, ToRebuild, Early, Late
  <1>10. CASE \/ StopInstance \/ StartInstance
              \/ \E c : UserAdds(c)
    BY <1>10, <1>1 DEF StopInstance, StartInstance, UserAdds, inside, ToRebuild
  <1>11. ASSUME NEW c, UserRemoves(c)
         PROVE  Classified'
    BY <1>11 DEF UserRemoves, inside, ToRebuild
  <1> QED
    BY <1>2, <1>3, <1>4, <1>5, <1>7, <1>8, <1>9, <1>10, <1>11 DEF AsNext

\* Images are built before services run them, and what a request that gives up
\* leaves behind is what was there before or what it has built.
LEMMA BuiltKept ==
  ASSUME AsTypeOK, StepsFit, Classified, Built, AsNext
  PROVE  Built'
  <1>a. Shaped
    BY AsTypes
  <1>b. ASSUME NEW pc \in Early \union Late \union Back \union {"free"}, Go(pc)
        PROVE  move'.pc = pc
    BY <1>a, <1>b DEF Go, Shaped, Moves
  <1> USE DEF Built, AtStep
  <1>1. ASSUME UNCHANGED <<project, image>>, slot'.worktree = slot.worktree,
               logged \intersect {"build", "services"} \subseteq logged',
               move.pc \notin {"recreate", "build"}
        PROVE  Built'
    BY <1>1 DEF ToRebuild
  <1>2. ASSUME slot'.worktree = NoTree PROVE Built'
    BY <1>2
  <1>3. CASE RunInstance
    BY <1>2, <1>3, <1>a DEF RunInstance, StepsFit, Shaped, Slots
  <1>4. CASE \/ \E w \in Branches, force \in BOOLEAN : AssignBegin(w, force)
             \/ AssignFinal \/ UnassignBegin \/ UnassignFinal \/ StopInstance
    BY <1>1, <1>4, <1>a DEF AssignBegin, AssignFinal, UnassignBegin, UnassignFinal, StopInstance,
                            inside, Shaped, Slots
  <1>5. CASE AssignCheckFails \/ AssignSwitch \/ AssignHealth \/ UnassignCheck
    BY <1>1, <1>5, <1>a DEF AssignCheckFails, AssignSwitch, AssignHealth, UnassignCheck, Revert,
                            inside, Shaped, Slots
  <1>6. CASE AssignClassify \/ AssignStop \/ AssignSync \/ \E c : UserAdds(c)
    BY <1>1, <1>6 DEF AssignClassify, AssignStop, AssignSync, UserAdds, inside
  <1>7. ASSUME NEW c, UserRemoves(c)
        PROVE  Built'
    BY <1>7 DEF UserRemoves, inside, ToRebuild
  <1>8. CASE AssignMount \/ AssignRecreate
    BY <1>8, <1>b DEF AssignMount, AssignRecreate, Late
  <1>9. CASE AssignStart \/ UnassignRestart
    <2>1. logged \subseteq logged'
      BY <1>9 DEF AssignStart, UnassignRestart, Recreate
    <2> QED
      BY <1>1, <1>9, <2>1 DEF AssignStart, UnassignRestart
  <1>10. CASE UnassignMount
    BY <1>2, <1>10, <1>a DEF UnassignMount, Shaped, Slots
  <1>11. CASE StartInstance
    <2>1. slot'.worktree = slot.worktree /\ logged \intersect {"build", "services"} \subseteq logged'
      BY <1>11, <1>a DEF StartInstance, Shaped, Slots
    <2>2. move.pc \notin {"recreate", "build"}
      BY <1>11 DEF StartInstance
    <2> QED
      BY <1>1, <1>11, <2>1, <2>2 DEF StartInstance
  <1>12. CASE AssignBuild
    <2>1. PICK bad \in SUBSET move.rebuild :
            /\ workspace = NoMount => bad = move.rebuild
            /\ logged' = IF bad = {} THEN logged ELSE logged \union {"build"}
            /\ image' = [s \in Services |-> IF s \in move.rebuild \ bad
                                            THEN project.recipe[workspace.tree] ELSE image[s]]
      BY <1>12 DEF AssignBuild
    <2>2. UNCHANGED <<project, slot>> /\ move.pc = "build"
      BY <1>12 DEF AssignBuild
    <2> SUFFICES ASSUME logged' \intersect {"build", "services"} = {}, NEW s \in ToRebuild
                 PROVE  image'[s] = project.recipe[slot.worktree]
      BY <2>2 DEF ToRebuild
    <2>3. bad = {} /\ "services" \notin logged
      BY <2>1
    <2>4. s \in move.rebuild
      BY <2>2, <2>3 DEF Classified, Early, Late
    <2>5. workspace = move.to /\ slot.worktree = move.to.tree
      BY <2>1, <2>2, <2>3, <2>4 DEF StepsFit, Late
    <2> QED
      BY <2>1, <2>3, <2>4, <2>5 DEF ToRebuild
  <1> QED
    BY <1>3, <1>4, <1>5, <1>6, <1>7, <1>8, <1>9, <1>10, <1>11, <1>12 DEF AsNext

LEMMA RunsBuiltKept ==
  ASSUME AsTypeOK, StepsFit, Classified, Built, RunsBuilt, AsNext
  PROVE  RunsBuilt'
  <1>a. Shaped
    BY AsTypes
  <1>b. ASSUME NEW pc \in Early \union Late \union Back \union {"free"}, Go(pc)
        PROVE  move'.pc = pc
    BY <1>a, <1>b DEF Go, Shaped, Moves
  <1> USE DEF RunsBuilt, AtStep
  <1>1. ASSUME project' = project, slot'.worktree = slot.worktree, Undisturbed,
               move.pc \notin {"recreate", "build", "start"}
        PROVE  RunsBuilt'
    BY <1>1 DEF ToRebuild, Undisturbed
  <1>2. ASSUME slot'.worktree = NoTree PROVE RunsBuilt'
    BY <1>2
  <1>c. UNCHANGED <<service, workspace, logged>> => Undisturbed
    BY DEF Undisturbed
  <1>3. CASE RunInstance
    BY <1>2, <1>3, <1>a DEF RunInstance, StepsFit, Shaped, Slots
  <1>4. CASE \/ \E w \in Branches, force \in BOOLEAN : AssignBegin(w, force)
             \/ AssignFinal \/ UnassignBegin \/ UnassignFinal
    BY <1>1, <1>4, <1>a, <1>c DEF AssignBegin, AssignFinal, UnassignBegin, UnassignFinal,
                                  inside, Shaped, Slots
  <1>5. CASE AssignCheckFails \/ AssignSwitch \/ AssignHealth \/ UnassignCheck
    BY <1>1, <1>5, <1>a, <1>c DEF AssignCheckFails, AssignSwitch, AssignHealth, UnassignCheck,
                                  Revert, inside, Shaped, Slots
  <1>6. CASE AssignClassify \/ AssignSync \/ \E c : UserAdds(c)
    BY <1>1, <1>6, <1>c DEF AssignClassify, AssignSync, UserAdds, inside
  <1>7. ASSUME NEW c, UserRemoves(c)
        PROVE  RunsBuilt'
    BY <1>7 DEF UserRemoves, inside, ToRebuild
  <1>8. CASE AssignMount \/ AssignRecreate \/ AssignBuild
    BY <1>8, <1>b DEF AssignMount, AssignRecreate, AssignBuild, Late
  <1>9. CASE AssignStop
    <2>1. \A s \in Services : service'[s].up =>
             service[s].up /\ service'[s].tree = service[s].tree /\ service'[s].image = service[s].image
      BY <1>9, <1>a DEF AssignStop, Shaped, Running
    <2> QED
      BY <1>1, <1>9, <2>1 DEF AssignStop, Undisturbed
  <1>10. CASE UnassignMount
    BY <1>2, <1>10, <1>a DEF UnassignMount, Shaped, Slots
  <1>11. CASE StopInstance
    <2>1. \A s \in Services : ~service'[s].up
      BY <1>11, <1>a DEF StopInstance, Shaped, Running
    <2> QED
      BY <2>1 DEF ToRebuild
  \* What has just been started runs the image there is.
  <1>12. ASSUME NEW S, ToRebuild \subseteq S \/ "services" \in logged,
                UNCHANGED <<project, slot>>, move.pc \notin {"recreate", "build"},
                \/ "compose" \in logged'
                \/ /\ logged' = logged
                   /\ \A s \in Services : service'[s] = IF s \in S THEN Started(s) ELSE service[s]
         PROVE  RunsBuilt'
    <2>1. \A s \in Services : Started(s).image = image[s]
      BY DEF Started
    <2> QED
      BY <1>12, <2>1 DEF Built, ToRebuild
  <1>13. CASE AssignStart
    <2>1. ToRebuild \subseteq Affected \/ "services" \in logged
      BY <1>13 DEF AssignStart, Classified, Affected, Early, Late
    <2> QED
      BY <1>12, <1>13, <2>1, RecreateEffect DEF AssignStart
  <1>14. CASE UnassignRestart
    <2>1. ToRebuild \subseteq Services
      BY DEF ToRebuild
    <2> QED
      BY <1>12, <1>14, <2>1, RecreateEffect DEF UnassignRestart
  <1>15. CASE StartInstance
    <2>1. slot'.worktree = slot.worktree /\ logged \intersect {"build", "services"} \subseteq logged'
      BY <1>15, <1>a DEF StartInstance, Shaped, Slots
    <2>2. project' = project /\ \A s \in Services : service'[s].image = image[s]
      BY <1>15 DEF StartInstance
    <2>3. move.pc \notin {"recreate", "build"}
      BY <1>15 DEF StartInstance
    <2> QED
      BY <2>1, <2>2, <2>3 DEF Built, ToRebuild
  <1> QED
    BY <1>3, <1>4, <1>5, <1>6, <1>7, <1>8, <1>9, <1>10, <1>11, <1>13, <1>14, <1>15 DEF AsNext

\* What is mounted is what the row says; a start finds it again.
LEMMA HomeKept ==
  ASSUME OuterDirs = {}, AsTypeOK, StepsFit, MountedHome, AsNext
  PROVE  MountedHome'
  <1>a. Shaped
    BY AsTypes
  <1> USE DEF MountedHome, Home, AtStep
  <1>1. ASSUME workspace' = workspace, slot'.worktree = slot.worktree, logged \subseteq logged',
               slot.status \notin {"absent", "stopped"}
        PROVE  MountedHome'
    BY <1>1
  <1>b. move.pc # "free" => slot.status \notin {"absent", "stopped"}
    BY DEF StepsFit
  <1>2. CASE RunInstance
    BY <1>2, <1>a DEF RunInstance, StepsFit, TheRoot, Shaped, Slots
  <1>3. CASE \/ \E w \in Branches, force \in BOOLEAN : AssignBegin(w, force)
             \/ AssignFinal \/ UnassignBegin \/ UnassignFinal
    BY <1>1, <1>3, <1>a, <1>b DEF AssignBegin, AssignFinal, UnassignBegin, UnassignFinal,
                                  inside, Shaped, Slots
  <1>4. CASE AssignCheckFails \/ AssignSwitch \/ AssignHealth \/ UnassignCheck
    BY <1>1, <1>4, <1>a, <1>b DEF AssignCheckFails, AssignSwitch, AssignHealth, UnassignCheck,
                                  Revert, inside, Shaped, Slots
  <1>5. CASE AssignClassify \/ AssignStop \/ AssignSync \/ AssignBuild
    BY <1>1, <1>5, <1>b DEF AssignClassify, AssignStop, AssignSync, AssignBuild, inside
  <1>6. CASE AssignRecreate \/ AssignStart \/ UnassignRestart
    <2>1. logged \subseteq logged'
      BY <1>6 DEF AssignRecreate, AssignStart, UnassignRestart, Recreate
    <2> QED
      BY <1>1, <1>6, <1>b, <2>1 DEF AssignRecreate, AssignStart, UnassignRestart
  <1>7. CASE AssignMount
    <2>1. slot'.worktree = move.to.tree /\ move.to.tree # NoTree
      BY <1>7, <1>a, MountTypes DEF AssignMount, StepsFit, Early, Shaped, Slots
    <2> QED
      BY <1>7, <2>1 DEF AssignMount
  <1>8. CASE UnassignMount
    <2>1. slot'.worktree = NoTree
      BY <1>8, <1>a DEF UnassignMount, Shaped, Slots
    <2> QED
      BY <1>8, <2>1 DEF UnassignMount, TheRoot
  <1>9. CASE StopInstance
    BY <1>9, <1>a DEF StopInstance, Shaped, Slots
  <1>10. CASE StartInstance
    <2>1. slot'.worktree = slot.worktree
      BY <1>10, <1>a DEF StartInstance, Shaped, Slots
    <2>2. CASE slot.worktree = NoTree
      BY <1>10, <2>1, <2>2 DEF StartInstance, TheRoot
    <2>3. CASE slot.worktree # NoTree
      <3>1. slot.worktree \in Branches
        BY <2>3, <1>a DEF Shaped, Slots
      <3>2. [tree |-> slot.worktree, dir |-> StartDir(slot.worktree)] \in checkouts
        BY <2>3, <3>1, StartFinds DEF StepsFit
      <3>3. workspace' = [tree |-> slot.worktree, dir |-> StartDir(slot.worktree)]
        BY <1>10, <2>3, <3>2 DEF StartInstance
      <3> QED
        BY <2>1, <2>3, <3>3
    <2> QED
      BY <2>2, <2>3
  <1>11. ASSUME NEW c, UserAdds(c) \/ UserRemoves(c)
         PROVE  MountedHome'
    BY <1>11 DEF UserAdds, UserRemoves, inside
  <1> QED
    BY <1>2, <1>3, <1>4, <1>5, <1>6, <1>7, <1>8, <1>9, <1>10, <1>11 DEF AsNext

----------------------------------------------------------------------------
AsInd ==
    AsTypeOK /\ StepsFit /\ ServicesSee /\ Classified /\ Built /\ RunsBuilt

LEMMA AsIndInit == AsInit => AsInd /\ MountedHome
  <1> SUFFICES ASSUME AsInit PROVE AsInd /\ MountedHome
    OBVIOUS
  <1>1. /\ move.pc = "free" /\ slot.status = "absent" /\ slot.worktree = NoTree
        /\ \A s \in Services : ~service[s].up
    BY DEF AsInit, NoMove
  <1> QED
    BY <1>1, AsInitType DEF AsInd, StepsFit, ServicesSee, Classified, Built, RunsBuilt,
                            MountedHome, Early, Late, Back

LEMMA AsIndNext == AsInd /\ [AsNext]_asvars => AsInd'
  <1> SUFFICES ASSUME AsInd, [AsNext]_asvars PROVE AsInd'
    OBVIOUS
  <1>1. CASE AsNext
    <2>1. AsTypeOK'
      <3>1. \/ RunInstance
            \/ \E w \in Branches, force \in BOOLEAN : AssignBegin(w, force)
            \/ AssignCheckFails \/ AssignClassify \/ AssignStop \/ AssignSwitch \/ AssignSync
            \/ AssignMount \/ AssignRecreate \/ AssignBuild \/ AssignStart \/ AssignHealth
            \/ AssignFinal
            \/ UnassignBegin \/ UnassignCheck \/ UnassignMount \/ UnassignRestart \/ UnassignFinal
            \/ StopInstance \/ StartInstance
            \/ \E c \in Checkout \ checkouts : UserAdds(c)
            \/ \E c \in checkouts : UserRemoves(c)
        BY <1>1 DEF AsNext
      <3> QED
        BY <3>1, AssignTypes, RestTypes DEF AsInd
    <2> QED
      BY <1>1, <2>1, FitKept, SeeKept, ClassifiedKept, BuiltKept, RunsBuiltKept DEF AsInd
  <1>2. CASE UNCHANGED asvars
    <2>1. StepsFit' /\ ServicesSee'
      BY <1>2 DEF asvars, AsInd, StepsFit, ServicesSee
    <2>2. AsTypeOK' /\ Classified'
      BY <1>2 DEF asvars, AsInd, AsTypeOK, Classified, ToRebuild
    <2>3. Built' /\ RunsBuilt'
      BY <1>2 DEF asvars, AsInd, Built, RunsBuilt, ToRebuild
    <2> QED
      BY <2>1, <2>2, <2>3 DEF AsInd
  <1> QED
    BY <1>1, <1>2

LEMMA HomeNext ==
  ASSUME OuterDirs = {}
  PROVE  AsInd /\ MountedHome /\ [AsNext]_asvars => MountedHome'
  <1> SUFFICES ASSUME AsInd, MountedHome, [AsNext]_asvars PROVE MountedHome'
    OBVIOUS
  <1>1. CASE UNCHANGED asvars
    BY <1>1 DEF asvars, MountedHome, Home
  <1> QED
    BY <1>1, HomeKept DEF AsInd

\* Every step of assign, unassign, stop and start keeps the types, those of the
\* directories a worktree is found in included (AssignSteps: detect_worktree_path,
\* compute_start_mount_src).
THEOREM AssignTypeCorrect == AsSpec => []AsTypeOK
  <1>1. AsInd => AsTypeOK
    BY DEF AsInd
  <1> QED
    BY <1>1, AsIndInit, AsIndNext, PTL DEF AsSpec

\* Where all directories of worktree_dir lie in the project, what is mounted at
\* /workspace is between requests the tree the row names, and what runs sees that
\* tree, whatever has failed and was reported on the way (assign_handler,
\* unassign_handler, stop and start).  Start looks a worktree up by its name: were
\* some of the directories outside, it could miss the one that was mounted.
THEOREM InstanceRunsItsTree ==
  ASSUME OuterDirs = {}
  PROVE  AsSpec => []RunsItsTree
  <1>1. AsInd /\ MountedHome => RunsItsTree
    BY DEF AsInd, MountedHome, Home, RunsItsTree, AtRest, StepsFit, ServicesSee, Late, Back, Early
  <1> QED
    BY <1>1, AsIndInit, AsIndNext, HomeNext, PTL DEF AsSpec

\* An assigned instance runs images of its tree, for any number of services and
\* strategies, however often assigns were given up half way before
\* (build_images, start_services).
THEOREM ImagesAreFresh == AsSpec => []AssignedImageFresh
  <1>1. AsInd => AssignedImageFresh
    <2> SUFFICES ASSUME AsInd, AtRest, slot.worktree # NoTree, logged = {},
                        NEW s \in Services, project.strategy[s] = "rebuild", service[s].up
                 PROVE  service[s].image = project.recipe[slot.worktree]
      BY DEF AssignedImageFresh
    <2>1. move.pc = "free"
      BY DEF AsInd, StepsFit, AtRest
    <2> QED
      BY <2>1 DEF AsInd, RunsBuilt, ToRebuild
  <1> QED
    BY <1>1, AsIndInit, AsIndNext, PTL DEF AsSpec

\* Unless git fails to list them, the files git ignores are there wherever the
\* marker says so: it is set when the copy has succeeded and removed before a
\* forced one (sync_gitignored_files), and both go with the checkout.
THEOREM MarkersTellTheTruth ==
  ASSUME "listing" \notin StepFaults
  PROVE  AsSpec => []MarkedIsFilled
  <1>1. AsInit => MarkedIsFilled
    BY DEF AsInit, MarkedIsFilled
  <1>2. MarkedIsFilled /\ [AsNext]_asvars => MarkedIsFilled'
    <2> SUFFICES ASSUME MarkedIsFilled, [AsNext]_asvars PROVE MarkedIsFilled'
      OBVIOUS
    <2> USE DEF MarkedIsFilled
    <2>1. CASE UNCHANGED <<marked, filled>>
      BY <2>1
    <2>2. CASE AssignSync
      BY <2>2 DEF AssignSync, May
    <2>3. ASSUME NEW c, UserRemoves(c) PROVE MarkedIsFilled'
      BY <2>3 DEF UserRemoves
    <2> QED
      BY <2>1, <2>2, <2>3 DEF AsNext, RunInstance, AssignBegin, AssignCheckFails, AssignClassify,
              AssignStop, AssignSwitch, AssignMount, AssignRecreate, AssignBuild, AssignStart,
              AssignHealth, AssignFinal, UnassignBegin, UnassignCheck, UnassignMount,
              UnassignRestart, UnassignFinal, StopInstance, StartInstance, UserAdds, asvars,
              ondisk
  <1> QED
    BY <1>1, <1>2, PTL DEF AsSpec
=============================================================================
