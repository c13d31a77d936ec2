---------------------------- MODULE ModelServer ----------------------------
(***************************************************************************)
(* The model server behind the gateway (Ollama), as gateway.py and         *)
(* residency.py use it, and what both ask before they load a model: the    *)
(* resource guard (guard.py) and the choice of autoselect.py.              *)
(*                                                                         *)
(* A model is absent, or loaded with a keep_alive: "timed" (it leaves some *)
(* time after its last request), "pinned" (it stays) or "zero" (it leaves  *)
(* once nothing runs on it).  "left" is pinned, too, to the server: by a   *)
(* gateway that was restarted since, or whose call got no answer, so that  *)
(* nobody knows whose pin it is.  Sizes are in units of VRAM.  What is     *)
(* left out: the floor of free VRAM that requests by model name observe.   *)
(***************************************************************************)
EXTENDS Integers, Sequences, FiniteSets, FiniteSetsExt, SequencesExt

CONSTANTS
  Models,      \* auto_models: best, hence largest, first
  Fallback,    \* auto_fallback, one of them
  Installed,   \* those of them that the server has
  Need,        \* Need[m]: VRAM of m, loaded
  Total, Headroom, \* of the card
  GameUse,     \* VRAM a game takes
  Reserve      \* VRAM a game reserves before it takes any

ASSUME ServerAssumption ==
  /\ Models \in Seq(ToSet(Models)) \ {<<>>} /\ IsInjective(Models)
  /\ Fallback \in ToSet(Models) /\ Installed \subseteq ToSet(Models)
  /\ Need \in [ToSet(Models) -> Nat \ {0}]
  /\ {Total, Headroom, GameUse, Reserve} \subseteq Nat

VARIABLES
  ka,       \* ka[m]: "absent", or m's keep_alive
  lowMem,   \* host memory is below the guard's floors
  used,     \* VRAM that others use on the card
  reserved  \* VRAM that others have reserved on it

serverVars == <<ka, lowMem, used, reserved>>

AutoModels == ToSet(Models)
Loaded == {m \in AutoModels : ka[m] # "absent"}
Pinned(m) == ka[m] \in {"pinned", "left"}
VRAM(S) == MapThenSumSet(LAMBDA m : Need[m], S)

\* A request, and POST /api/generate with a keep_alive, load the model if need be.
\* A request without one sets the default: it unpins.
Serves(m) == ka' = [ka EXCEPT ![m] = "timed"]
KeepAlive(m, v) == ka' = [ka EXCEPT ![m] = v]
\* keep_alive 0 does not load an absent model.
Unloads(m) == ka' = [ka EXCEPT ![m] = IF @ = "absent" THEN @ ELSE "zero"]

-----------------------------------------------------------------------------
(* autoselect *)

Free == IF Total > used + VRAM(Loaded) THEN Total - used - VRAM(Loaded) ELSE 0
\* Mutant: reservations are not looked at.
FitsUnreserved(m, seen) == Need[m] <= Free + VRAM(seen) - Headroom
\* In its budget a model may take what is free and what those seen loaded would give back,
\* and never more than the card less what others reserved.
Fits(m, seen) ==
  /\ Need[m] <= Free + VRAM(seen) - Headroom
  /\ reserved # 0 => Need[m] <= Total - reserved - Headroom

\* The candidates are the models installed, or all when none is or they cannot be read.
\* The first that fits is chosen, else the last.
Candidates(installed) == IF installed = {} THEN AutoModels ELSE installed
Places(S) == {i \in DOMAIN Models : Models[i] \in S}
Smallest(S) == Models[Max(Places(S))]
Choice(seen, candidates) ==
  LET fitting == {m \in candidates : Fits(m, seen)}
  IN IF fitting = {} THEN Smallest(candidates) ELSE Models[Min(Places(fitting))]

\* When the server does not say what is installed, only the models loaded at some time have
\* a size (any of them, here); when the card cannot be read, it is the fallback.
LastResort == {Fallback, Last(Models), Smallest(Candidates(Installed))}
ChoicesNow(seen) ==
  {Choice(seen, Candidates(Installed)), Fallback, Last(Models)} \cup {m \in AutoModels : Fits(m, seen)}

\* What /api/ps says is loaded: nothing, when it does not answer.
Seen == {Loaded, {}}

\* Guard.may_load.
MayLoad(resident) == resident \/ ~lowMem
=============================================================================
