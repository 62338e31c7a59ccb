----------------------------- MODULE VolumePaths -----------------------------
(***************************************************************************)
(* How a path inside a client container becomes a mount of the engine and  *)
(* a path inside the engine (internal/pipeline/volumes.go).                *)
(* A path is a sequence of tokens, "/" among them; a container's mounts    *)
(* are a function from destinations to mounts, [type, name, source]: a     *)
(* volume has a name, a bind a source only, a tmpfs neither.               *)
(***************************************************************************)
EXTENDS Naturals, Sequences, SequencesExt

(* strings.TrimRight(path, "/").                                           *)
Trim(path) ==
  SubSeq(path, 1, Max({0} \cup {i \in DOMAIN path : path[i] # "/"}))

(* buildDestMap.  Docker has one mount for a destination.                  *)
DestMap(mounts) ==
  [dst \in {Trim(d) : d \in DOMAIN mounts} |->
     mounts[CHOOSE d \in DOMAIN mounts : Trim(d) = dst]]

NoMount == <<"no mount">>

(* findMountForPath: the destination itself, or the longest one above it;  *)
(* an empty one, of "/", counts only for the path "/".                     *)
FindMountForPath(path, mounts) ==
  LET over == {dst \in DOMAIN mounts \ {<<>>} :
                 IsPrefix(dst \o <<"/">>, Trim(path) \o <<"/">>)}
  IN IF Trim(path) \in DOMAIN mounts THEN Trim(path)
     ELSE IF over = {} THEN NoMount
     ELSE CHOOSE dst \in over : \A d \in over : Len(d) <= Len(dst)

MountSource(mount) == IF mount.name # <<>> THEN mount.name ELSE mount.source
ConvertMountType(type) == IF type \in {"bind", "tmpfs"} THEN type ELSE "volume"

VolumesRoot == <<"/", "volumes", "/">>
Transformed(model, path) == VolumesRoot \o model \o path

(* resolvePathMount: the mount of the engine for a path.                   *)
ResolvePathMount(mounts, model, path, readOnly) ==
  LET dst == FindMountForPath(path, mounts)
  IN [type |-> ConvertMountType(mounts[dst].type),
      source |-> MountSource(mounts[dst]),
      target |-> Transformed(model, dst), readOnly |-> readOnly]

IsMounted(mounts, path) == FindMountForPath(path, mounts) # NoMount

(* The elements that Keep, in their order.                                 *)
Only(Keep(_), s) ==
  FlattenSeq([i \in DOMAIN s |-> IF Keep(s[i]) THEN <<s[i]>> ELSE <<>>])

(* The first of each, by what Key makes of an element.                     *)
FirstBy(Key(_), s) ==
  FlattenSeq([i \in DOMAIN s |->
    IF \E j \in 1..(i - 1) : Key(s[j]) = Key(s[i]) THEN <<>> ELSE <<s[i]>>])

(* Deviation: only mounts alike in all are taken for one.                  *)
DedupMountsAlike(mounts) == FirstBy(LAMBDA m : m, mounts)

(* Deviation: the first mount at a target stays, read-only or not.         *)
DedupMountsByTargetFirst(mounts) == FirstBy(LAMBDA m : m.target, mounts)

(* dedupMountsByTarget: a writable mount takes the place of a read-only    *)
(* one, in its position.                                                   *)
DedupMountsByTarget(mounts) ==
  LET first == FirstBy(LAMBDA m : m.target, mounts)
      writable(m) == {i \in DOMAIN mounts : mounts[i].target = m.target
                                            /\ ~mounts[i].readOnly}
  IN [i \in DOMAIN first |->
        IF first[i].readOnly /\ writable(first[i]) # {}
        THEN mounts[Min(writable(first[i]))] ELSE first[i]]
=============================================================================
