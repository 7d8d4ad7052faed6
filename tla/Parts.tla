------------------------------- MODULE Parts -------------------------------
(* The parts of the package that are not on the path of a message, those that  *)
(* goroutines share under a lock, and those that look after the memory and the *)
(* records of a read: the options of a socket, the cache of zones, an endpoint *)
(* whose associations are peeled off beside a reader, the constructors, the    *)
(* buffers of ReadMsg and the notification accumulator.  They share no state,  *)
(* and a behaviour is of one part.  In one of another part than the options a  *)
(* socket is at rest on which no operation is called, and the variables of the *)
(* other parts are Absent.                                                     *)
EXTENDS Options, ZoneCache, PeelOff, Setup, ReadBuffers, Notes

\* What the constants of the options are assumed to be.
ASSUME PartsAssumption == OptionsAssumption

partsVars == <<part, vars, zoneVars, peelOffVars, setupVars, bufferVars, noteVars>>

-----------------------------------------------------------------------------
NoZones ==
  /\ clock = Absent /\ host = Absent /\ created = Absent /\ until = Absent
  /\ zoneMu = Absent /\ byName = Absent /\ fetched = Absent /\ ift = Absent
  /\ read = Absent /\ looking = Absent /\ zone = Absent /\ now = Absent
  /\ stale = Absent /\ missed = Absent
NoPeelOff ==
  /\ recordMu = Absent /\ live = Absent /\ where = Absent /\ queue = Absent
  /\ arrived = Absent /\ rpc = Absent /\ acc = Absent /\ got = Absent
  /\ cut = Absent /\ peeling = Absent /\ arg = Absent /\ peeled = Absent
  /\ free = Absent /\ others = Absent /\ raced = Absent
NoSetup ==
  /\ ctor = Absent /\ phase = Absent /\ next = Absent /\ sysctl = Absent
  /\ ep = Absent /\ left = Absent /\ sock = Absent /\ err = Absent
NoBuffers ==
  /\ pool = Absent /\ holds = Absent /\ reading = Absent /\ max = Absent
  /\ call = Absent /\ buf = Absent /\ class = Absent /\ total = Absent
  /\ tooLong = Absent /\ grown = Absent /\ res = Absent
NoNotes ==
  /\ handler = Absent /\ record = Absent /\ sent = Absent /\ notes = Absent
  /\ noting = Absent /\ typed = Absent /\ kept = Absent /\ serving = Absent
  /\ served = Absent /\ verdict = Absent /\ out = Absent

PartsInit ==
  /\ part \in Parts
  /\ Init /\ (part = "options" <=> menu # {})
  /\ IF part = "zones" THEN ZoneInit ELSE NoZones
  /\ IF part = "peelOff" THEN PeelInit ELSE NoPeelOff
  /\ IF part = "setup" THEN SetupInit ELSE NoSetup
  /\ IF part = "buffers" THEN BuffersInit ELSE NoBuffers
  /\ IF part = "notes" THEN NotesInit ELSE NoNotes

PartsNext ==
  /\ UNCHANGED part
  /\ \/ /\ part = "options" /\ Next
        /\ UNCHANGED <<zoneVars, peelOffVars, setupVars, bufferVars, noteVars>>
     \/ /\ part = "zones" /\ ZoneNext
        /\ UNCHANGED <<vars, peelOffVars, setupVars, bufferVars, noteVars>>
     \/ /\ part = "peelOff" /\ PeelNext
        /\ UNCHANGED <<vars, zoneVars, setupVars, bufferVars, noteVars>>
     \/ /\ part = "setup" /\ SetupNext
        /\ UNCHANGED <<vars, zoneVars, peelOffVars, bufferVars, noteVars>>
     \/ /\ part = "buffers" /\ BuffersNext
        /\ UNCHANGED <<vars, zoneVars, peelOffVars, setupVars, noteVars>>
     \/ /\ part = "notes" /\ NotesNext
        /\ UNCHANGED <<vars, zoneVars, peelOffVars, setupVars, bufferVars>>

PartsSpec == PartsInit /\ [][PartsNext]_partsVars
=============================================================================
