------------------------------ MODULE Registry -------------------------------
(***************************************************************************)
(* SourceProviderRegistry: built-in providers are registered first, then   *)
(* the application may register its own and discover() goes through the    *)
(* entry points, the configuration file and the environment.               *)
(***************************************************************************)
EXTENDS Collections, SequencesExt

CONSTANTS
  NoProvider,
  Builtins,     \* sequence of providers: [name, aliases]
  Applicants,   \* providers an application registers itself
  References,   \* references in the order of discovery: see ReferenceType
  MaxCalls      \* bound of the model: calls of discover

(* A reference loads a provider, or nothing; what a configuration file     *)
(* disables is skipped.                                                    *)
ReferenceType(r) == r.enabled \in BOOLEAN /\ r.kind \in {"entry", "config", "env"}

Names(p) == {p.name} \cup p.aliases

(* The built-in providers were registered one after the other, which would *)
(* have raised for a name that is given twice.                             *)
ASSUME RegistryAssumption ==
  /\ MaxCalls \in Nat
  /\ Builtins \in Seq(Range(Builtins))
  /\ \A i, j \in DOMAIN Builtins :
       i # j => Names(Builtins[i]) \cap Names(Builtins[j]) = {}
  /\ \A p \in Range(Builtins) \cup Applicants : IsFiniteSet(p.aliases)
  /\ \A i \in DOMAIN References :
       /\ ReferenceType(References[i])
       /\ References[i].provider # NoProvider =>
            IsFiniteSet(References[i].provider.aliases)

VARIABLES
  providers,    \* _providers: name or alias -> provider
  canonical,    \* _canonical_names
  info,         \* _info: canonical name -> where it comes from
  markers,      \* _discovered_references
  cursor,       \* the reference discover is at; 0: not in discover
  found,        \* what this call has discovered
  discovery,    \* "none", "returned" or "raised": the last call
  discoveries

registryVars == <<providers, canonical, info, markers, cursor, found, discovery,
                  discoveries>>

(* Mutant: only the canonical name is looked up.                           *)
ConflictsByName(p) == {p.name} \cap DOMAIN providers

Conflicts(p) == Names(p) \cap DOMAIN providers

Named(p) == "" \notin Names(p)
Entered(p, origin) ==
  /\ canonical' = Append(canonical, p.name)
  /\ providers' = [n \in DOMAIN providers \cup Names(p) |->
                    IF n \in Names(p) THEN p ELSE providers[n]]
  /\ info' = Assign(info, p.name, origin)

RegistryInit ==
  /\ providers = [n \in UNION {Names(p) : p \in Range(Builtins)} |->
                   CHOOSE p \in Range(Builtins) : n \in Names(p)]
  /\ canonical = [i \in DOMAIN Builtins |-> Builtins[i].name]
  /\ info = [n \in Range(canonical) |-> "builtin"]
  /\ markers = {} /\ cursor = 0 /\ found = <<>>
  /\ discovery = "none" /\ discoveries = 0

(* register raises before it changes anything.                             *)
Register(p) ==
  /\ cursor = 0
  /\ IF Named(p) /\ Conflicts(p) = {} THEN Entered(p, "application")
     ELSE UNCHANGED <<providers, canonical, info>>
  /\ UNCHANGED <<markers, cursor, found, discovery, discoveries>>

Discover ==
  /\ cursor = 0 /\ discoveries < MaxCalls
  /\ cursor' = 1 /\ found' = <<>> /\ discoveries' = discoveries + 1
  /\ UNCHANGED <<providers, canonical, info, markers, discovery>>

Current == References[cursor]
Looking == cursor \in DOMAIN References

SkipReference ==
  /\ Looking /\ (~Current.enabled \/ cursor \in markers)
  /\ cursor' = cursor + 1
  /\ UNCHANGED <<providers, canonical, info, markers, found, discovery, discoveries>>

(* Loading may fail today and work tomorrow; a conflict stays.             *)
LoadReference ==
  /\ Looking /\ Current.enabled /\ cursor \notin markers
  /\ Current.provider # NoProvider
  /\ Named(Current.provider) /\ Conflicts(Current.provider) = {}
  /\ Entered(Current.provider, Current.kind)
  /\ markers' = markers \cup {cursor}
  /\ found' = Append(found, Current.provider.name)
  /\ cursor' = cursor + 1
  /\ UNCHANGED <<discovery, discoveries>>

(* Nothing is skipped: the first reference that cannot be loaded, coerced  *)
(* or registered ends the call.                                            *)
RaiseReference ==
  /\ Looking /\ Current.enabled /\ cursor \notin markers
  /\ cursor' = 0 /\ discovery' = "raised"
  /\ UNCHANGED <<providers, canonical, info, markers, found, discoveries>>

EndDiscovery ==
  /\ cursor > Len(References)
  /\ cursor' = 0 /\ discovery' = "returned"
  /\ UNCHANGED <<providers, canonical, info, markers, found, discoveries>>

RegistryNext ==
  \/ \E p \in Applicants : Register(p)
  \/ Discover \/ SkipReference \/ LoadReference \/ RaiseReference \/ EndDiscovery

RegistrySpec == RegistryInit /\ [][RegistryNext]_registryVars
-----------------------------------------------------------------------------
(* Every name and alias stays with the provider that had it first, every   *)
(* provider is listed once under all of its names, with where it came      *)
(* from, and the choices of the command line name nobody twice; whatever   *)
(* calls of discover have failed before.                                   *)
ProviderChoices == FlattenSeq([i \in DOMAIN canonical |->
             SetToSeq(Names(providers[canonical[i]]))])

NamesStayWithTheirProvider ==
  /\ \A p \in Range(Builtins) : \A n \in Names(p) : providers[n] = p
  /\ \A n \in DOMAIN providers :
       providers[providers[n].name] = providers[n]
         /\ providers[n].name \in DOMAIN info
  /\ IsInjective(canonical) /\ IsInjective(ProviderChoices)
  /\ Range(ProviderChoices) = DOMAIN providers
=============================================================================
