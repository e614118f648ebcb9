--------------------------- MODULE ParticleGroup ---------------------------
(***************************************************************************)
(* One ParticleGroup: a fixed array of particles threaded into a list of   *)
(* used ones and a list of free ones.  The lists are written as sequences, *)
(* from _usedList.next and _freeList.next on; a particle is its index.     *)
(* tod is kept as the set of particles whose time of death is 0.           *)
(***************************************************************************)
EXTENDS Integers, Sequences

Groups(n) == [used   : Seq(1..n),
              free   : Seq(1..n),
              dead   : SUBSET (1..n),          \* tod = 0
              damage : [1..n -> Nat]]

\* The chain that reset threads through the array.
fresh(n) == [k \in 1..n |-> k]

\* ParticleGroup::reset, after the particles in use were told to die.
reset(n) == [used |-> << >>, free |-> fresh(n), dead |-> {}, damage |-> [p \in 1..n |-> 0]]

\* ParticleGroup::newParticle: the head of the free list becomes the head of
\* the used one.  Nothing happens, and 0 is returned, when none is free.
born(g) == IF g.free = << >> THEN 0 ELSE Head(g.free)

newParticle(g, dmg) ==
    IF g.free = << >> THEN g
    ELSE [used   |-> <<Head(g.free)>> \o g.used,
          free   |-> Tail(g.free),
          dead   |-> g.dead \ {Head(g.free)},
          damage |-> [g.damage EXCEPT ![Head(g.free)] = dmg]]

Without(s, i) == [k \in 1..(Len(s) - 1) |-> IF k < i THEN s[k] ELSE s[k + 1]]

\* Mutant: the dead particle is not taken out of the used list.
Mut_unlink(g, i) == [g EXCEPT !.free = <<g.used[i]>> \o @]

\* ParticleGroup::update when the particle at place i of the walk is dead.
\* Nobody asks a free particle for its tod or its damage.
unlink(g, i) ==
    [used   |-> Without(g.used, i),
     free   |-> <<g.used[i]>> \o g.free,
     dead   |-> g.dead \ {g.used[i]},
     damage |-> [g.damage EXCEPT ![g.used[i]] = 0]]
=============================================================================
