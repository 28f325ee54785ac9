--------------------------- MODULE ModuleLoading ---------------------------
(***************************************************************************)
(* util/moduleloader.py and the loading half of util/dispatcher.py: how a   *)
(* dispatcher loads the modules configured for its server, with what they   *)
(* require, when some cannot be imported, fail in init() or in PROVIDES.    *)
(*                                                                         *)
(* A load is [active, imported, errors]; faults is what is wrong with the   *)
(* source.                                                                 *)
(***************************************************************************)
EXTENDS Naturals, Sequences, SequencesExt

CONSTANTS Modules,
          Requires       \* module -> sequence of what it requires

ASSUME RequiresAssumption == Requires \in [Modules -> Seq(Modules)]

NoFault == [import |-> {}, init |-> {}, provides |-> {}, mappings |-> {}]

\* Mutant: a module that fails in PROVIDES is active.
StagesCarelessly(load, m, faults) ==
  IF m \in faults.init THEN [load EXCEPT !.errors = @ \cup {m}] ELSE [load EXCEPT !.active = @ \cup {m}]

\* load_module's stages: OPTIONS, init(), PROVIDES, then activate
Stages(load, m, faults) ==
  IF m \in faults.init \cup faults.provides
  THEN [load EXCEPT !.errors = @ \cup {m}] ELSE [load EXCEPT !.active = @ \cup {m}]

\* import_plugin; what cannot be imported is not tried again
Import(load, m, faults) ==
  IF m \in faults.import THEN load ELSE [load EXCEPT !.imported = @ \cup {m}]

\* load_module and _load_requirements.  A name among parents is a circle.
RECURSIVE LoadModule(_, _, _, _, _)
LoadModule(load, m, parents, allowed, faults) ==
  IF m \in load.active THEN load
  ELSE IF m \notin allowed \/ m \in parents THEN [load EXCEPT !.errors = @ \cup {m}]
  ELSE IF m \in faults.import THEN load
  ELSE LET Require(l, r) ==
             IF r \in allowed THEN LoadModule(l, r, parents \cup {m}, allowed, faults) ELSE l
           with == FoldLeft(Require, Import(load, m, faults), Requires[m])
       IN IF ToSet(Requires[m]) \subseteq with.active
          THEN Stages(with, m, faults) ELSE [with EXCEPT !.errors = @ \cup {m}]

\* Dispatcher.reload: the configured modules in their order, but for the denied
LoadAll(configured, denied, imported, faults) ==
  LET allowed == ToSet(configured) \ denied
      Next(l, m) == IF m \in allowed THEN LoadModule(l, m, {}, allowed, faults) ELSE l
  IN FoldLeft(Next, [active |-> {}, imported |-> imported, errors |-> {}], configured)

----------------------------------------------------------------------------
(* What loading promises, without an order: the least set of sound modules  *)
(* closed under "all it requires is in the set".                           *)

Sound(configured, denied, faults) ==
  (ToSet(configured) \ denied) \ (faults.import \cup faults.init \cup faults.provides)

RECURSIVE ClosureFrom(_, _)
ClosureFrom(S, sound) ==
  LET more == {m \in sound : ToSet(Requires[m]) \subseteq S}
  IN IF more \subseteq S THEN S ELSE ClosureFrom(S \cup more, sound)

Closure(configured, denied, faults) == ClosureFrom({}, Sound(configured, denied, faults))
=============================================================================
