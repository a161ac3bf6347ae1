----------------------------- MODULE WritePolicy -----------------------------
(***************************************************************************)
(* The write jail that src/src/tools/file_ops.py keeps for the milestone    *)
(* being executed: which files write_file and patch_file may touch, which   *)
(* tests are protected, and which files were read or created.  The module   *)
(* globals of file_ops.py are one record, the policy; a path is a member of *)
(* Files, already normalised and inside the workspace.                      *)
(***************************************************************************)
EXTENDS FiniteSets

CONSTANTS
  Files,       \* the paths the worker may name
  Tests,       \* those that are test files
  Sensitive,   \* those that hold secrets
  Large        \* those of more than REWRITE_MIN_LINES lines when they exist

ASSUME FilesAssumption == /\ IsFiniteSet(Files)
                          /\ Tests \subseteq Files
                          /\ Sensitive \subseteq Files
                          /\ Large \subseteq Files

Policy == [readOnly : BOOLEAN, tests : BOOLEAN, jail : SUBSET Files,
           fresh : SUBSET Files, read : SUBSET Files, created : SUBSET Files]

\* Mutant: tests that exist count as the milestone's own, too.
BeginPolicyFreshTests(targets, isTest, readOnly, disk) ==
  [readOnly |-> readOnly, tests |-> isTest,
   jail |-> IF targets = {} THEN Files ELSE targets,
   fresh |-> targets \cap Tests, read |-> {}, created |-> {}]

\* set_allow_test_edits and begin_milestone_write_policy as _execute_milestone
\* calls them: no target means no jail, and the planned tests that do not exist
\* yet are the milestone's own.
BeginPolicy(targets, isTest, readOnly, disk) ==
  [readOnly |-> readOnly,
   tests    |-> isTest,
   jail     |-> IF targets = {} THEN Files ELSE targets,
   fresh    |-> IF isTest THEN {} ELSE (targets \cap Tests) \ disk,
   read     |-> {},
   created  |-> {}]

Jailed(p, f) == f \in Sensitive \/ p.readOnly \/ f \notin p.jail

Protected(p, f) == f \in Tests /\ ~p.tests /\ f \notin p.fresh

Writable(p, f) == ~Jailed(p, f) /\ ~Protected(p, f)

\* A large file that exists is only replaced after a read, or on demand.
MayWriteFile(p, disk, f, rewrite) ==
  /\ Writable(p, f)
  /\ f \in disk \cap Large => rewrite \/ f \in p.read

MayPatchFile(p, disk, f) == Writable(p, f) /\ f \in disk

MayReadFile(disk, f) == f \in disk \ Sensitive

AfterWriteFile(p, disk, f) ==
  [p EXCEPT !.created = IF f \in disk THEN @ ELSE @ \cup {f}]

\* mark_file_read; only for a large file is it ever asked.
AfterReadFile(p, f) == [p EXCEPT !.read = @ \cup ({f} \cap Large)]
==============================================================================
