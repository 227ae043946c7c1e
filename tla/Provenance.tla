----------------------------- MODULE Provenance -----------------------------
(* extractors/provenance-tracking-system.py: every observation of an entity   *)
(* and every resolution of observations is recorded next to a transformation, *)
(* and the history of a canonical entity can be asked for.  Observation,      *)
(* canonical and resolution ids are random in the code, numbers here; the     *)
(* threshold of find_matching_canonical is not used by its code.              *)
EXTENDS Naturals, Sequences, SequencesExt, FiniteSets, FiniteSetsExt, Sieve

CONSTANTS Entities,         \* what may be observed: records [type, name, norm, props]
          Objects,          \* the items of lists that cannot be hashed
          Sources,          \* source documents, numbers standing for their cids
          MaxObservations,  \* bound: observations recorded
          MaxResolutions,   \* bound: calls of create_canonical_entity
          MaxGroup          \* bound: observations given to one call

VARIABLES observations,      \* observation id -> observation
          canonical,         \* canonical id -> CanonicalEntity, ids in order of creation,
                             \* with indexed, its canonical_to_observations
          resolutions,       \* resolution id -> [canonical, observations]
          transformations    \* the list of transformations
provenanceVars == <<observations, canonical, resolutions, transformations>>

ProvenanceInit ==
  observations = << >> /\ canonical = << >> /\ resolutions = << >> /\ transformations = << >>

Obs(o) == <<"obs", o>>
Ent(c) == <<"entity", c>>
Cid(d) == <<"cid", d>>
Transform(process, from, to) == [process |-> process, from |-> from, to |-> to]

RecordObservation(e, d) ==
  /\ Len(observations) < MaxObservations
  /\ observations' = Append(observations, [entity |-> e, source |-> d])
  /\ transformations' = Append(transformations, Transform("Extract", {Cid(d)}, Obs(Len(observations) + 1)))
  /\ UNCHANGED <<canonical, resolutions>>

(* The first canonical entity of the observation's type one of whose names    *)
(* normalizes to the observation's.                                           *)
MatchingCanonical(o) ==
  {c \in DOMAIN canonical :
     /\ canonical[c].type = observations[o].entity.type
     /\ observations[o].entity.norm \in {n.norm : n \in canonical[c].names}}

NameAndNorm(o) == [name |-> observations[o].entity.name, norm |-> observations[o].entity.norm]

NewCanonical(o) ==
  [primary |-> observations[o].entity.name, type |-> observations[o].entity.type,
   names |-> {NameAndNorm(o)}, props |-> << >>,
   observations |-> << >>, indexed |-> << >>, resolutions |-> << >>]

(* Properties are values of the model's JSON: a list or something else.  A     *)
(* list is merged through set(), which takes no object: the call raises.       *)
BothLists(v, w) == v.list /\ w.list
MergeProps(props, p) ==
  [k \in DOMAIN props \cup DOMAIN p |->
     IF k \notin DOMAIN props THEN p[k]
     ELSE IF k \in DOMAIN p /\ BothLists(props[k], p[k])
     THEN [list |-> TRUE, items |-> props[k].items \cup p[k].items]
     ELSE props[k]]
Clashing(props, p) ==
  {k \in DOMAIN props \cap DOMAIN p :
     BothLists(props[k], p[k]) /\ (props[k].items \cup p[k].items) \cap Objects # {}}

Properties(o) == observations[o].entity.props
Merged(entity, obs) ==
  LET f[i \in 0..Len(obs)] == IF i = 0 THEN entity.props ELSE MergeProps(f[i - 1], Properties(obs[i]))
  IN  f
(* Observations are added one after the other; the index follows each.         *)
Absorb(entity, obs, n) ==
  [entity EXCEPT !.observations = @ \o SubSeq(obs, 1, n), !.indexed = @ \o SubSeq(obs, 1, n),
                 !.names = @ \cup {NameAndNorm(obs[i]) : i \in 1..n},
                 !.props = Merged(entity, obs)[n]]
Clashes(entity, obs) ==
  {i \in DOMAIN obs : Clashing(Merged(entity, obs)[i - 1], Properties(obs[i])) # {}}

Store(id, entity) ==
  canonical' = [c \in DOMAIN canonical \cup {id} |-> IF c = id THEN entity ELSE canonical[c]]

(* Mutant of Link: only a new entity is recorded.                              *)
LinkUnrecorded(obs, id, entity) ==
  /\ Clashes(entity, obs) = {}
  /\ Store(id, [Absorb(entity, obs, Len(obs)) EXCEPT !.resolutions = Append(@, Len(resolutions) + 1)])
  /\ transformations' = IF id \in DOMAIN canonical THEN transformations
                        ELSE Append(transformations, Transform("Resolve", {Obs(obs[i]) : i \in DOMAIN obs}, Ent(id)))
(* The call returns: the entity keeps the resolution and it is recorded.       *)
Link(obs, id, entity) ==
  /\ Clashes(entity, obs) = {}
  /\ Store(id, [Absorb(entity, obs, Len(obs)) EXCEPT !.resolutions = Append(@, Len(resolutions) + 1)])
  /\ transformations' = Append(transformations, Transform("Resolve", {Obs(obs[i]) : i \in DOMAIN obs}, Ent(id)))

(* The call raises in the merge of one observation: this one is in the entity  *)
(* already, with the properties that came before the lists that clash.         *)
Raise(obs, id, entity) ==
  /\ Clashes(entity, obs) # {}
  /\ LET n == Min(Clashes(entity, obs))
         before == Absorb(entity, obs, n - 1)
         p == Properties(obs[n])
     IN  \E keys \in SUBSET (DOMAIN p \ Clashing(before.props, p)) :
           Store(id, [before EXCEPT !.observations = Append(@, obs[n]),
                                    !.names = @ \cup {NameAndNorm(obs[n])},
                                    !.props = MergeProps(@, [k \in keys |-> p[k]])])
  /\ UNCHANGED transformations

(* The resolution itself is stored before the observations are gone through.   *)
Resolve(obs, id, entity) ==
  /\ resolutions' = Append(resolutions, [canonical |-> id, observations |-> obs])
  /\ Link(obs, id, entity) \/ Raise(obs, id, entity)
  /\ UNCHANGED observations

Groups == UNION {{s \in [1..n -> DOMAIN observations] : IsInjective(s)} : n \in 1..MaxGroup}
Matched(obs) == {i \in DOMAIN obs : MatchingCanonical(obs[i]) # {}}

AddToCanonical(obs) ==
  /\ Len(resolutions) < MaxResolutions
  /\ Matched(obs) # {}
  /\ LET c == Min(MatchingCanonical(obs[Min(Matched(obs))])) IN Resolve(obs, c, canonical[c])
CreateCanonical(obs) ==
  /\ Len(resolutions) < MaxResolutions
  /\ Matched(obs) = {}
  /\ Resolve(obs, Len(canonical) + 1, NewCanonical(obs[1]))

ProvenanceNext ==
  \/ \E e \in Entities, d \in Sources : RecordObservation(e, d)
  \/ \E obs \in Groups : AddToCanonical(obs) \/ CreateCanonical(obs)
ProvenanceSpec == ProvenanceInit /\ [][ProvenanceNext]_provenanceVars

(* get_entity_provenance takes the transformations to the entity and those    *)
(* from one of the observations the index has for it.                         *)
EntityProvenance(c) ==
  LET mine == {Obs(o) : o \in ToSet(canonical[c].indexed)}
      others == {t \in ToSet(transformations) : t.to # Ent(c) /\ t.from \cap mine = {}}
  IN  [observations |-> canonical[c].observations,
       resolutions |-> canonical[c].resolutions,
       transformations |-> Without(transformations, others)]

-----------------------------------------------------------------------------
(* Behind an observation of an entity: its extraction and, after it, a        *)
(* resolution to this entity, which the answer about the entity contains.     *)
Audited(c, o) ==
  /\ \E i, j \in DOMAIN transformations :
       /\ i < j
       /\ transformations[i].process = "Extract" /\ transformations[i].to = Obs(o)
       /\ transformations[j].process = "Resolve" /\ transformations[j].to = Ent(c)
       /\ Obs(o) \in transformations[j].from
  /\ \E i \in DOMAIN EntityProvenance(c).transformations :
       Obs(o) \in EntityProvenance(c).transformations[i].from

(* "Every step is recorded and can be audited", the class says of itself: so  *)
(* would each observation of a canonical entity be.  Some are not: a call     *)
(* that raises while it merges two lists has added the observation and        *)
(* records nothing.                                                           *)
EveryStepRecorded ==
  \A c \in DOMAIN canonical : \A o \in ToSet(canonical[c].observations) : Audited(c, o)

(* What an entity shows of its resolutions is whole, whatever calls raised     *)
(* before, after or on the same observations: each observation one of them    *)
(* links is in the entity and can be audited, and nothing is in an entity     *)
(* that no stored resolution put there.                                       *)
ResolutionsAreWhole ==
  \A c \in DOMAIN canonical :
    /\ \A r \in ToSet(canonical[c].resolutions) : \A o \in ToSet(resolutions[r].observations) :
         resolutions[r].canonical = c /\ o \in ToSet(canonical[c].observations) /\ Audited(c, o)
    /\ \A o \in ToSet(canonical[c].observations) : \E r \in DOMAIN resolutions :
         resolutions[r].canonical = c /\ o \in ToSet(resolutions[r].observations)
=============================================================================
