------------------------------ MODULE VobMtype ------------------------------
(***************************************************************************)
(* The meta-types of VOB objects (src/vob_mtype.h): the vob_mtype_t       *)
(* enumeration and the classification macros built on it.  Each           *)
(* VOB_MTYPE_IS_* / HAS_* / CAN_* predicate is modelled by the set of     *)
(* mtypes it holds for, and each VOB_MTYPE_CASE_* macro by the sequence  *)
(* of case labels it expands to, in order and with nested CASE macros    *)
(* expanded.  Where the header has an #ifdef VOB_ACL variant the          *)
(* definition takes the build, acl, as a parameter.                       *)
(*                                                                         *)
(* The state is one query: a build (with or without VOB_ACL), a VOB      *)
(* feature level, and an mtype value of that build.  The properties are  *)
(* stated of the queried mtype, so the reachable states check them for   *)
(* every mtype of both builds at every feature level.                     *)
(***************************************************************************)
EXTENDS Naturals, Sequences, SequencesExt

CONSTANTS
  VOB_FEATURE_LEVEL_6,          \* the feature levels the header compares
  VOB_FEATURE_LEVEL_UCM_FC_OBJS, \* flevel against (defined outside src/)
  FeatureLevels                 \* the feature levels queried

VARIABLES
  acl,  \* TRUE for a build with VOB_ACL defined
  fl,   \* the VOB feature level
  mt    \* the mtype queried

vars == <<acl, fl, mt>>

\* typedef enum vob_mtype_t.  POLICY and ROLEMAP exist only with VOB_ACL.
VOB_MTYPE_NULL == 0
VOB_MTYPE_VOB == 1
VOB_MTYPE_NSDIR_ELEM == 2
VOB_MTYPE_NSDIR_VERSION == 3
VOB_MTYPE_TREE_ELEM == 4
VOB_MTYPE_FILE_ELEM == 5
VOB_MTYPE_DO_VERSION == 6
VOB_MTYPE_SLINK == 7
VOB_MTYPE_VERSION == 8
VOB_MTYPE_DO == 9
VOB_MTYPE_HLINK == 10
VOB_MTYPE_BRANCH == 11
VOB_MTYPE_POOL == 12
VOB_MTYPE_ELEM_TYPE == 13
VOB_MTYPE_BRANCH_TYPE == 14
VOB_MTYPE_ATTR_TYPE == 15
VOB_MTYPE_HLINK_TYPE == 16
VOB_MTYPE_TRIGGER_TYPE == 17
VOB_MTYPE_REPLICA_TYPE == 18
VOB_MTYPE_VIEW_PVT == 19
VOB_MTYPE_LABEL_TYPE == 20
VOB_MTYPE_VIEW_ABO == 21
VOB_MTYPE_VIEW_DO == 22
VOB_MTYPE_VIEW_ABO_NLC == 23
VOB_MTYPE_REPLICA == 24
VOB_MTYPE_VIEW_DB == 25
VOB_MTYPE_NSHAREABLE_DO == 26
VOB_MTYPE_ACTIVITY_TYPE == 27
VOB_MTYPE_CG_ACTIVITY == 28
VOB_MTYPE_STATE_TYPE == 29
VOB_MTYPE_STATE == 30
VOB_MTYPE_ROLE == 31
VOB_MTYPE_USER == 32
VOB_MTYPE_CHECKPOINT == 33
VOB_MTYPE_DOMAIN == 34
VOB_MTYPE_UCM_COMPONENT == 35
VOB_MTYPE_UCM_FOLDER == 36
VOB_MTYPE_UCM_PROJECT == 37
VOB_MTYPE_UCM_ACTIVITY == 38
VOB_MTYPE_UCM_STREAM == 39
VOB_MTYPE_UCM_TIMELINE == 40
VOB_MTYPE_UCM_BASELINE == 41
VOB_MTYPE_UCM_LEGACY_OBJ == 42
VOB_MTYPE_POLICY == 43
VOB_MTYPE_ROLEMAP == 44

VOB_NUM_MTYPES(a) == IF a THEN 45 ELSE 43

\* The mtype values of a build.
Mtypes(a) == 0 .. VOB_NUM_MTYPES(a) - 1

VOB_NUM_MTYPES_FL6 == VOB_MTYPE_DOMAIN + 1
VOB_NUM_MTYPES_FL7 == VOB_MTYPE_UCM_LEGACY_OBJ + 1

\* The mtypes only a VOB_ACL build adds to a predicate's #else variant.
IfAcl(a, s) == IF a THEN s ELSE {}

VOB_MTYPE_IS_ELEM   == {VOB_MTYPE_FILE_ELEM, VOB_MTYPE_TREE_ELEM, VOB_MTYPE_NSDIR_ELEM}
VOB_MTYPE_CASE_ELEM == <<VOB_MTYPE_FILE_ELEM, VOB_MTYPE_TREE_ELEM, VOB_MTYPE_NSDIR_ELEM>>

VOB_MTYPE_IS_VERSION   == {VOB_MTYPE_VERSION, VOB_MTYPE_DO_VERSION, VOB_MTYPE_NSDIR_VERSION}
VOB_MTYPE_CASE_VERSION == <<VOB_MTYPE_VERSION, VOB_MTYPE_DO_VERSION, VOB_MTYPE_NSDIR_VERSION>>

VOB_MTYPE_IS_FILE_VERSION   == {VOB_MTYPE_VERSION, VOB_MTYPE_DO_VERSION}
VOB_MTYPE_CASE_FILE_VERSION == <<VOB_MTYPE_VERSION, VOB_MTYPE_DO_VERSION>>

VOB_MTYPE_IS_DO   == {VOB_MTYPE_DO, VOB_MTYPE_DO_VERSION, VOB_MTYPE_VIEW_DO, VOB_MTYPE_NSHAREABLE_DO}
VOB_MTYPE_CASE_DO == <<VOB_MTYPE_DO, VOB_MTYPE_DO_VERSION, VOB_MTYPE_VIEW_DO, VOB_MTYPE_NSHAREABLE_DO>>

VOB_MTYPE_IS_TYPE(a) ==
  {VOB_MTYPE_ELEM_TYPE, VOB_MTYPE_BRANCH_TYPE, VOB_MTYPE_LABEL_TYPE, VOB_MTYPE_ATTR_TYPE, VOB_MTYPE_TRIGGER_TYPE,
   VOB_MTYPE_HLINK_TYPE, VOB_MTYPE_REPLICA_TYPE, VOB_MTYPE_ACTIVITY_TYPE, VOB_MTYPE_STATE_TYPE}
  \cup IfAcl(a, {VOB_MTYPE_ROLEMAP, VOB_MTYPE_POLICY})

VOB_MTYPE_CASE_TYPE(a) ==
  <<VOB_MTYPE_ELEM_TYPE, VOB_MTYPE_BRANCH_TYPE, VOB_MTYPE_LABEL_TYPE, VOB_MTYPE_ATTR_TYPE, VOB_MTYPE_TRIGGER_TYPE,
    VOB_MTYPE_HLINK_TYPE, VOB_MTYPE_REPLICA_TYPE, VOB_MTYPE_ACTIVITY_TYPE, VOB_MTYPE_STATE_TYPE>>
  \o (IF a THEN <<VOB_MTYPE_ROLEMAP, VOB_MTYPE_POLICY>> ELSE <<>>)

VOB_MTYPE_IS_PVOB_OBJ ==
  {VOB_MTYPE_CG_ACTIVITY, VOB_MTYPE_ACTIVITY_TYPE, VOB_MTYPE_STATE, VOB_MTYPE_STATE_TYPE, VOB_MTYPE_ROLE, VOB_MTYPE_USER,
   VOB_MTYPE_CHECKPOINT, VOB_MTYPE_DOMAIN, VOB_MTYPE_UCM_COMPONENT, VOB_MTYPE_UCM_FOLDER, VOB_MTYPE_UCM_PROJECT,
   VOB_MTYPE_UCM_STREAM, VOB_MTYPE_UCM_ACTIVITY, VOB_MTYPE_UCM_TIMELINE, VOB_MTYPE_UCM_BASELINE,
   VOB_MTYPE_UCM_LEGACY_OBJ}

VOB_MTYPE_IS_VOB_OBJ(a) ==
  {VOB_MTYPE_VOB, VOB_MTYPE_REPLICA} \cup VOB_MTYPE_IS_ELEM \cup {VOB_MTYPE_BRANCH}
  \cup VOB_MTYPE_IS_VERSION \cup {VOB_MTYPE_SLINK, VOB_MTYPE_DO, VOB_MTYPE_HLINK, VOB_MTYPE_POOL}
  \cup VOB_MTYPE_IS_TYPE(a) \cup {VOB_MTYPE_VIEW_DB} \cup VOB_MTYPE_IS_PVOB_OBJ

VOB_MTYPE_CASE_UCM_BASELINE == <<VOB_MTYPE_UCM_BASELINE, VOB_MTYPE_CHECKPOINT>>
VOB_MTYPE_IS_UCM_BASELINE   == {VOB_MTYPE_UCM_BASELINE, VOB_MTYPE_CHECKPOINT}

VOB_MTYPE_CASE_UCM_FC_AND_CGACT_OBJ ==
  <<VOB_MTYPE_CG_ACTIVITY, VOB_MTYPE_UCM_FOLDER, VOB_MTYPE_UCM_PROJECT, VOB_MTYPE_UCM_STREAM,
    VOB_MTYPE_UCM_COMPONENT, VOB_MTYPE_UCM_ACTIVITY, VOB_MTYPE_UCM_TIMELINE>>
VOB_MTYPE_IS_UCM_FC_AND_CGACT_OBJ ==
  {VOB_MTYPE_CG_ACTIVITY, VOB_MTYPE_UCM_FOLDER, VOB_MTYPE_UCM_PROJECT, VOB_MTYPE_UCM_STREAM,
   VOB_MTYPE_UCM_COMPONENT, VOB_MTYPE_UCM_ACTIVITY, VOB_MTYPE_UCM_TIMELINE}

VOB_MTYPE_CASE_UCM_FC_CGACT_OBJ ==
  <<VOB_MTYPE_UCM_FOLDER, VOB_MTYPE_UCM_PROJECT, VOB_MTYPE_UCM_STREAM, VOB_MTYPE_UCM_COMPONENT,
    VOB_MTYPE_UCM_ACTIVITY, VOB_MTYPE_UCM_TIMELINE>>
VOB_MTYPE_IS_UCM_FC_CGACT_OBJ ==
  {VOB_MTYPE_UCM_FOLDER, VOB_MTYPE_UCM_PROJECT, VOB_MTYPE_UCM_STREAM, VOB_MTYPE_UCM_COMPONENT,
   VOB_MTYPE_UCM_ACTIVITY, VOB_MTYPE_UCM_TIMELINE}

VOB_MTYPE_CASE_UCM_FC_VOB_OBJ ==
  <<VOB_MTYPE_UCM_FOLDER, VOB_MTYPE_UCM_PROJECT, VOB_MTYPE_UCM_STREAM, VOB_MTYPE_UCM_COMPONENT,
    VOB_MTYPE_UCM_ACTIVITY, VOB_MTYPE_UCM_BASELINE, VOB_MTYPE_UCM_TIMELINE, VOB_MTYPE_UCM_LEGACY_OBJ>>
VOB_MTYPE_IS_UCM_FC_VOB_OBJ ==
  {VOB_MTYPE_UCM_FOLDER, VOB_MTYPE_UCM_PROJECT, VOB_MTYPE_UCM_STREAM, VOB_MTYPE_UCM_COMPONENT,
   VOB_MTYPE_UCM_ACTIVITY, VOB_MTYPE_UCM_BASELINE, VOB_MTYPE_UCM_TIMELINE, VOB_MTYPE_UCM_LEGACY_OBJ}

VOB_MTYPE_IS_UCM_VOB_OBJ_AT_FLEVEL(flevel) ==
  IF flevel >= VOB_FEATURE_LEVEL_UCM_FC_OBJS
  THEN VOB_MTYPE_IS_UCM_FC_VOB_OBJ ELSE {VOB_MTYPE_CG_ACTIVITY}

\* Mutant of VOB_MTYPE_CASE_VOB_OBJ: the POOL label left out.
CaseVobObjNoPool(a) ==
  <<VOB_MTYPE_VOB, VOB_MTYPE_REPLICA>> \o VOB_MTYPE_CASE_ELEM \o <<VOB_MTYPE_BRANCH>>
  \o VOB_MTYPE_CASE_VERSION
  \o <<VOB_MTYPE_SLINK, VOB_MTYPE_DO, VOB_MTYPE_HLINK, VOB_MTYPE_CG_ACTIVITY, VOB_MTYPE_STATE, VOB_MTYPE_ROLE, VOB_MTYPE_USER,
       VOB_MTYPE_CHECKPOINT, VOB_MTYPE_DOMAIN, VOB_MTYPE_VIEW_DB>>
  \o VOB_MTYPE_CASE_UCM_FC_VOB_OBJ \o VOB_MTYPE_CASE_TYPE(a)

\* Mutant of VOB_MTYPE_CASE_VOB_OBJ: CHECKPOINT written as
\* VOB_MTYPE_CASE_UCM_BASELINE, which also expands to UCM_BASELINE.
CaseVobObjBaselineMacro(a) ==
  <<VOB_MTYPE_VOB, VOB_MTYPE_REPLICA>> \o VOB_MTYPE_CASE_ELEM \o <<VOB_MTYPE_BRANCH>>
  \o VOB_MTYPE_CASE_VERSION
  \o <<VOB_MTYPE_SLINK, VOB_MTYPE_DO, VOB_MTYPE_HLINK, VOB_MTYPE_POOL, VOB_MTYPE_CG_ACTIVITY, VOB_MTYPE_STATE, VOB_MTYPE_ROLE,
       VOB_MTYPE_USER>> \o VOB_MTYPE_CASE_UCM_BASELINE \o <<VOB_MTYPE_DOMAIN, VOB_MTYPE_VIEW_DB>>
  \o VOB_MTYPE_CASE_UCM_FC_VOB_OBJ \o VOB_MTYPE_CASE_TYPE(a)

VOB_MTYPE_CASE_VOB_OBJ(a) ==
  <<VOB_MTYPE_VOB, VOB_MTYPE_REPLICA>> \o VOB_MTYPE_CASE_ELEM \o <<VOB_MTYPE_BRANCH>>
  \o VOB_MTYPE_CASE_VERSION
  \o <<VOB_MTYPE_SLINK, VOB_MTYPE_DO, VOB_MTYPE_HLINK, VOB_MTYPE_POOL, VOB_MTYPE_CG_ACTIVITY, VOB_MTYPE_STATE, VOB_MTYPE_ROLE,
       VOB_MTYPE_USER, VOB_MTYPE_CHECKPOINT, VOB_MTYPE_DOMAIN, VOB_MTYPE_VIEW_DB>>
  \o VOB_MTYPE_CASE_UCM_FC_VOB_OBJ \o VOB_MTYPE_CASE_TYPE(a)

\* The mtypes of the UCM objects the lists below share.
UcmObjs == VOB_MTYPE_IS_UCM_FC_VOB_OBJ

VOB_MTYPE_IS_REPLICATED(a) ==
  {VOB_MTYPE_VOB, VOB_MTYPE_REPLICA} \cup VOB_MTYPE_IS_ELEM \cup {VOB_MTYPE_BRANCH}
  \cup VOB_MTYPE_IS_VERSION
  \cup {VOB_MTYPE_SLINK, VOB_MTYPE_HLINK, VOB_MTYPE_STATE, VOB_MTYPE_ROLE, VOB_MTYPE_USER, VOB_MTYPE_CHECKPOINT, VOB_MTYPE_DOMAIN,
        VOB_MTYPE_CG_ACTIVITY, VOB_MTYPE_VIEW_DB, VOB_MTYPE_ELEM_TYPE, VOB_MTYPE_BRANCH_TYPE, VOB_MTYPE_LABEL_TYPE,
        VOB_MTYPE_ATTR_TYPE, VOB_MTYPE_HLINK_TYPE, VOB_MTYPE_REPLICA_TYPE, VOB_MTYPE_ACTIVITY_TYPE,
        VOB_MTYPE_STATE_TYPE}
  \cup IfAcl(a, {VOB_MTYPE_ROLEMAP, VOB_MTYPE_POLICY}) \cup UcmObjs

VOB_MTYPE_HAS_NAME(a) ==
  VOB_MTYPE_IS_TYPE(a)
  \cup {VOB_MTYPE_POOL, VOB_MTYPE_REPLICA, VOB_MTYPE_CG_ACTIVITY, VOB_MTYPE_STATE, VOB_MTYPE_ROLE, VOB_MTYPE_USER,
        VOB_MTYPE_CHECKPOINT, VOB_MTYPE_DOMAIN}
  \cup UcmObjs \cup IfAcl(a, {VOB_MTYPE_POLICY, VOB_MTYPE_ROLEMAP})

VOB_MTYPE_HAS_GEND_NAME ==
  {VOB_MTYPE_CG_ACTIVITY, VOB_MTYPE_CHECKPOINT} \cup UcmObjs

VOB_MTYPE_HAS_SELECTOR(a) == VOB_MTYPE_HAS_NAME(a) \cup {VOB_MTYPE_VOB, VOB_MTYPE_HLINK}

VOB_MTYPE_HAS_TYPE ==
  VOB_MTYPE_IS_ELEM
  \cup {VOB_MTYPE_BRANCH, VOB_MTYPE_HLINK, VOB_MTYPE_REPLICA, VOB_MTYPE_CG_ACTIVITY, VOB_MTYPE_STATE}

VOB_MTYPE_HAS_FS_NAME ==
  VOB_MTYPE_IS_ELEM \cup VOB_MTYPE_IS_VERSION
  \cup {VOB_MTYPE_DO, VOB_MTYPE_NSHAREABLE_DO, VOB_MTYPE_BRANCH, VOB_MTYPE_SLINK}

VOB_MTYPE_HAS_OWNER_GROUP(a) ==
  VOB_MTYPE_HAS_FS_NAME \cup VOB_MTYPE_IS_TYPE(a)
  \cup {VOB_MTYPE_HLINK, VOB_MTYPE_REPLICA, VOB_MTYPE_POOL, VOB_MTYPE_CG_ACTIVITY, VOB_MTYPE_STATE, VOB_MTYPE_ROLE, VOB_MTYPE_USER,
        VOB_MTYPE_CHECKPOINT, VOB_MTYPE_DOMAIN}
  \cup UcmObjs \cup IfAcl(a, {VOB_MTYPE_POLICY, VOB_MTYPE_ROLEMAP})

VOB_MTYPE_HAS_LABELS == VOB_MTYPE_IS_VERSION

VOB_MTYPE_HAS_ATTRS(a) == VOB_MTYPE_IS_VOB_OBJ(a) \ {VOB_MTYPE_VIEW_DB}

\* Mutant of VOB_MTYPE_HAS_HLINKS: || in place of the && !(...).
HasHlinksOr(a) == VOB_MTYPE_IS_VOB_OBJ(a) \cup (Mtypes(a) \ {VOB_MTYPE_HLINK})

VOB_MTYPE_HAS_HLINKS(a) == VOB_MTYPE_IS_VOB_OBJ(a) \ {VOB_MTYPE_HLINK}

VOB_MTYPE_HAS_TRIGGERS ==
  VOB_MTYPE_IS_ELEM
  \cup {VOB_MTYPE_CG_ACTIVITY, VOB_MTYPE_UCM_COMPONENT, VOB_MTYPE_UCM_FOLDER, VOB_MTYPE_UCM_PROJECT,
        VOB_MTYPE_UCM_STREAM, VOB_MTYPE_UCM_ACTIVITY, VOB_MTYPE_CHECKPOINT, VOB_MTYPE_UCM_LEGACY_OBJ,
        VOB_MTYPE_UCM_BASELINE}

\* Mutant of VOB_MTYPE_HAS_MASTER: every type object, the trigger type
\* included.
HasMasterAllTypes(a) ==
  VOB_MTYPE_IS_ELEM \cup {VOB_MTYPE_BRANCH} \cup VOB_MTYPE_IS_TYPE(a)
  \cup {VOB_MTYPE_HLINK, VOB_MTYPE_REPLICA, VOB_MTYPE_VOB, VOB_MTYPE_SLINK, VOB_MTYPE_CG_ACTIVITY, VOB_MTYPE_STATE, VOB_MTYPE_ROLE,
        VOB_MTYPE_USER, VOB_MTYPE_CHECKPOINT, VOB_MTYPE_DOMAIN}
  \cup IfAcl(a, {VOB_MTYPE_POLICY, VOB_MTYPE_ROLEMAP}) \cup UcmObjs

VOB_MTYPE_HAS_MASTER(a) ==
  VOB_MTYPE_IS_ELEM \cup {VOB_MTYPE_BRANCH}
  \cup (VOB_MTYPE_IS_TYPE(a) \ {VOB_MTYPE_TRIGGER_TYPE})
  \cup {VOB_MTYPE_HLINK, VOB_MTYPE_REPLICA, VOB_MTYPE_VOB, VOB_MTYPE_SLINK, VOB_MTYPE_CG_ACTIVITY, VOB_MTYPE_STATE, VOB_MTYPE_ROLE,
        VOB_MTYPE_USER, VOB_MTYPE_CHECKPOINT, VOB_MTYPE_DOMAIN}
  \cup IfAcl(a, {VOB_MTYPE_POLICY, VOB_MTYPE_ROLEMAP}) \cup UcmObjs

VOB_MTYPE_HAS_MASTER_KIND ==
  {VOB_MTYPE_ATTR_TYPE, VOB_MTYPE_LABEL_TYPE, VOB_MTYPE_HLINK_TYPE, VOB_MTYPE_ACTIVITY_TYPE, VOB_MTYPE_STATE_TYPE}

VOB_MTYPE_HAS_MOD_MASTER == {VOB_MTYPE_LABEL_TYPE}

VOB_MTYPE_HAS_GLOBALNESS ==
  {VOB_MTYPE_ELEM_TYPE, VOB_MTYPE_BRANCH_TYPE, VOB_MTYPE_LABEL_TYPE, VOB_MTYPE_ATTR_TYPE, VOB_MTYPE_HLINK_TYPE}

\* The four macros below exist only in a VOB_ACL build.
VOB_MTYPE_HAS_ROLEMAP == VOB_MTYPE_IS_ELEM \cup {VOB_MTYPE_POLICY, VOB_MTYPE_ROLEMAP, VOB_MTYPE_VOB}
VOB_MTYPE_CASE_ROLEMAP == VOB_MTYPE_CASE_ELEM \o <<VOB_MTYPE_POLICY, VOB_MTYPE_ROLEMAP, VOB_MTYPE_VOB>>

VOB_MTYPE_HAS_ACL_ENFORCEMENT ==
  VOB_MTYPE_IS_ELEM \cup VOB_MTYPE_IS_VERSION \cup {VOB_MTYPE_POLICY, VOB_MTYPE_ROLEMAP, VOB_MTYPE_VOB}
VOB_MTYPE_CASE_ACL_ENFORCEMENT ==
  VOB_MTYPE_CASE_ELEM \o <<VOB_MTYPE_POLICY, VOB_MTYPE_ROLEMAP, VOB_MTYPE_VOB>>

VOB_MTYPE_CAN_LOCK(a) ==
  VOB_MTYPE_IS_ELEM \cup {VOB_MTYPE_BRANCH} \cup VOB_MTYPE_IS_TYPE(a)
  \cup VOB_MTYPE_IS_VERSION
  \cup {VOB_MTYPE_POOL, VOB_MTYPE_VOB, VOB_MTYPE_CG_ACTIVITY, VOB_MTYPE_STATE, VOB_MTYPE_ROLE, VOB_MTYPE_USER, VOB_MTYPE_CHECKPOINT,
        VOB_MTYPE_DOMAIN, VOB_MTYPE_UCM_COMPONENT, VOB_MTYPE_UCM_FOLDER, VOB_MTYPE_UCM_PROJECT, VOB_MTYPE_UCM_STREAM,
        VOB_MTYPE_UCM_ACTIVITY, VOB_MTYPE_UCM_LEGACY_OBJ, VOB_MTYPE_UCM_BASELINE}

VOB_MTYPE_SVR_REQMASTER ==
  {VOB_MTYPE_BRANCH, VOB_MTYPE_BRANCH_TYPE, VOB_MTYPE_VERSION, VOB_MTYPE_DO_VERSION, VOB_MTYPE_NSDIR_VERSION}
VOB_MTYPE_CAN_REQMASTER == {VOB_MTYPE_BRANCH, VOB_MTYPE_BRANCH_TYPE}

VOB_MTYPE_HAS_VISIBLE_ACCESS_CHECK == {VOB_MTYPE_POLICY, VOB_MTYPE_ROLEMAP}

\* Mutant of VOB_NUM_MTYPES_BY_FL: < in place of <=.
NumMtypesByFlStrict(flevel) ==
  IF flevel < VOB_FEATURE_LEVEL_6 THEN VOB_NUM_MTYPES_FL6 ELSE VOB_NUM_MTYPES_FL7

VOB_NUM_MTYPES_BY_FL(flevel) ==
  IF flevel <= VOB_FEATURE_LEVEL_6 THEN VOB_NUM_MTYPES_FL6 ELSE VOB_NUM_MTYPES_FL7

-----------------------------------------------------------------------------
Init ==
  /\ acl \in BOOLEAN
  /\ fl \in FeatureLevels
  /\ mt \in Mtypes(acl)

\* The next mtype a caller classifies.
Query ==
  /\ mt' \in Mtypes(acl)
  /\ UNCHANGED <<acl, fl>>

Next == Query

Spec == Init /\ [][Next]_vars

-----------------------------------------------------------------------------
(***************************************************************************)
(* Properties.                                                             *)
(***************************************************************************)

\* Each VOB_MTYPE_IS_* predicate with the VOB_MTYPE_CASE_* macro the
\* header pairs it with, in build a.
CasePairs(a) ==
  <<<<VOB_MTYPE_IS_ELEM, VOB_MTYPE_CASE_ELEM>>,
    <<VOB_MTYPE_IS_VERSION, VOB_MTYPE_CASE_VERSION>>,
    <<VOB_MTYPE_IS_FILE_VERSION, VOB_MTYPE_CASE_FILE_VERSION>>,
    <<VOB_MTYPE_IS_DO, VOB_MTYPE_CASE_DO>>,
    <<VOB_MTYPE_IS_TYPE(a), VOB_MTYPE_CASE_TYPE(a)>>,
    <<VOB_MTYPE_IS_VOB_OBJ(a), VOB_MTYPE_CASE_VOB_OBJ(a)>>,
    <<VOB_MTYPE_IS_UCM_BASELINE, VOB_MTYPE_CASE_UCM_BASELINE>>,
    <<VOB_MTYPE_IS_UCM_FC_AND_CGACT_OBJ, VOB_MTYPE_CASE_UCM_FC_AND_CGACT_OBJ>>,
    <<VOB_MTYPE_IS_UCM_FC_CGACT_OBJ, VOB_MTYPE_CASE_UCM_FC_CGACT_OBJ>>,
    <<VOB_MTYPE_IS_UCM_FC_VOB_OBJ, VOB_MTYPE_CASE_UCM_FC_VOB_OBJ>>>>
  \o (IF a THEN <<<<VOB_MTYPE_HAS_ROLEMAP, VOB_MTYPE_CASE_ROLEMAP>>>> ELSE <<>>)

\* Every case-label list the header defines in build a.
CaseLists(a) ==
  {CasePairs(a)[i][2] : i \in DOMAIN CasePairs(a)}
  \cup (IF a THEN {VOB_MTYPE_CASE_ACL_ENFORCEMENT} ELSE {})

\* A switch written with VOB_MTYPE_CASE_X takes the branch for exactly the
\* mtypes VOB_MTYPE_IS_X accepts: the case macro, with the case macros it
\* nests (CASE_VOB_OBJ expands CASE_ELEM, CASE_VERSION, CASE_UCM_FC_VOB_OBJ
\* and CASE_TYPE), names the same mtypes as its predicate, in both builds.
CaseLabelsMatch ==
  \A i \in DOMAIN CasePairs(acl) :
    mt \in CasePairs(acl)[i][1] <=> mt \in ToSet(CasePairs(acl)[i][2])

\* No case-label macro, once its nested macros are expanded, names an
\* mtype twice (a duplicate case value does not compile).
CaseLabelsDistinct ==
  \A s \in CaseLists(acl) : Cardinality({j \in DOMAIN s : s[j] = mt}) <= 1

\* The "ACL enforcement" case labels match VOB_MTYPE_HAS_ACL_ENFORCEMENT,
\* as the header's comment on VOB_MTYPE_CASE_ACL_ENFORCEMENT says they
\* should.
AclEnforcementCaseMatches ==
  acl => (mt \in VOB_MTYPE_HAS_ACL_ENFORCEMENT
            <=> mt \in ToSet(VOB_MTYPE_CASE_ACL_ENFORCEMENT))

\* The mastership predicates nest: only a label type can be mastered
\* for modification, only types with a master kind have one, a master
\* kind implies a master replica, an object with a master replica is
\* replicated, and a replicated object is a VOB object; what the client
\* may reqmaster the server may, and what the server may reqmaster is
\* mastered or is a version of a mastered branch.
MasteringNested ==
  /\ mt \in VOB_MTYPE_HAS_MOD_MASTER => mt \in VOB_MTYPE_HAS_MASTER_KIND
  /\ mt \in VOB_MTYPE_HAS_MASTER_KIND => mt \in VOB_MTYPE_HAS_MASTER(acl)
  /\ mt \in VOB_MTYPE_HAS_MASTER(acl) => mt \in VOB_MTYPE_IS_REPLICATED(acl)
  /\ mt \in VOB_MTYPE_IS_REPLICATED(acl) => mt \in VOB_MTYPE_IS_VOB_OBJ(acl)
  /\ mt \in VOB_MTYPE_CAN_REQMASTER => mt \in VOB_MTYPE_SVR_REQMASTER
  /\ mt \in VOB_MTYPE_SVR_REQMASTER =>
       mt \in VOB_MTYPE_HAS_MASTER(acl) \cup VOB_MTYPE_IS_VERSION

\* What can carry attributes, hyperlinks, triggers, labels, a type or a
\* lock is a VOB object; a generated name is a name; whatever has a name
\* or a file-system name has an owner and group; only type objects are
\* global; and in a VOB_ACL build a visible access check implies a
\* rolemap, and a rolemap implies ACL enforcement.
VobObjCapabilities ==
  /\ mt \in VOB_MTYPE_HAS_ATTRS(acl) \cup VOB_MTYPE_HAS_HLINKS(acl)
            \cup VOB_MTYPE_HAS_TRIGGERS \cup VOB_MTYPE_CAN_LOCK(acl)
            \cup VOB_MTYPE_HAS_LABELS \cup VOB_MTYPE_HAS_TYPE
       => mt \in VOB_MTYPE_IS_VOB_OBJ(acl)
  /\ mt \in VOB_MTYPE_HAS_GEND_NAME => mt \in VOB_MTYPE_HAS_NAME(acl)
  /\ mt \in VOB_MTYPE_HAS_NAME(acl) \cup VOB_MTYPE_HAS_FS_NAME
       => mt \in VOB_MTYPE_HAS_OWNER_GROUP(acl)
  /\ mt \in VOB_MTYPE_HAS_NAME(acl) => mt \in VOB_MTYPE_HAS_SELECTOR(acl)
  /\ mt \in VOB_MTYPE_HAS_GLOBALNESS => mt \in VOB_MTYPE_IS_TYPE(acl)
  /\ acl => /\ mt \in VOB_MTYPE_HAS_VISIBLE_ACCESS_CHECK => mt \in VOB_MTYPE_HAS_ROLEMAP
            /\ mt \in VOB_MTYPE_HAS_ROLEMAP => mt \in VOB_MTYPE_HAS_ACL_ENFORCEMENT

\* VOB_NUM_MTYPES_BY_FL and VOB_MTYPE_IS_UCM_VOB_OBJ_AT_FLEVEL agree on
\* when the UCM mtypes exist: the UCM objects of a feature level are
\* mtypes that level supports, the FL7 UCM mtypes are supported exactly
\* from the level that introduces them, and above FL6 a build without
\* VOB_ACL supports all its mtypes.
FeatureLevelsAgree ==
  /\ mt \in VOB_MTYPE_IS_UCM_VOB_OBJ_AT_FLEVEL(fl) => mt < VOB_NUM_MTYPES_BY_FL(fl)
  /\ mt \in VOB_MTYPE_IS_UCM_FC_VOB_OBJ =>
       (mt < VOB_NUM_MTYPES_BY_FL(fl) <=> fl >= VOB_FEATURE_LEVEL_UCM_FC_OBJS)
  /\ ~acl /\ fl > VOB_FEATURE_LEVEL_6 => VOB_NUM_MTYPES_BY_FL(fl) = VOB_NUM_MTYPES(acl)

\* The ACL-only mtypes (POLICY, ROLEMAP), which the header's comment puts
\* at FL7 or higher, are mtypes VOB_NUM_MTYPES_BY_FL supports at some
\* feature level of a VOB_ACL build.
AclMtypesSupported ==
  acl /\ mt \in VOB_MTYPE_HAS_VISIBLE_ACCESS_CHECK =>
    \E f \in FeatureLevels : mt < VOB_NUM_MTYPES_BY_FL(f)
=============================================================================
