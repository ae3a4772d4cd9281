-------------------------------- MODULE Screens --------------------------------
(***************************************************************************)
(* What a user has before him: the designer, a conversation, the uploads to *)
(* a knowledge base and the lists, each with what it asks of the interface. *)
(* They share no variable.                                                  *)
(***************************************************************************)
EXTENDS Naturals, FiniteSets, Sequences, SequencesExt

CONSTANTS
  DesignEmployees, DefaultModel, DesignModels, DesignBases, Unset, MAX_WORKFLOW_NODES,
  MAX_WORKFLOW_EDGES, DesignWorkflows, Saves, Stored0, Posted, Directory, MaxNodes,
  MaxDesignEdits, MaxLosses,                                              \* WorkflowDesigner
  MaxTurns, MaxStamp, MaxIncidents,                                       \* ChatScreen
  Files, UploadConcurrency, MaxQueueFiles, MaxCopies, MaxCallFaults,      \* UploadQueue
  Ids, MaxListTime, ListLimit, MaxReads                                   \* PagedList

VARIABLES
  editor, saving, stored, listed, posted, changes, losses, overlapped,        \* WorkflowDesigner
  kept, due, journal, shown, feed, fetch, answer, overtaken, incidents,       \* ChatScreen
  items, running, refreshing, calls, documents, seen, listing, lost, missed,  \* UploadQueue
  order, rows, data, query, reads                                             \* PagedList

-----------------------------------------------------------------------------
Design == INSTANCE WorkflowDesigner WITH
  Employees <- DesignEmployees, Models <- DesignModels, Knowledge <- DesignBases,
  Workflows <- DesignWorkflows, MaxEdits <- MaxDesignEdits, MaxFaults <- MaxLosses,
  edits <- changes, faults <- losses

Chat == INSTANCE ChatScreen WITH
  stored <- kept, log <- journal, cache <- shown, source <- feed

Queue == INSTANCE UploadQueue WITH
  MaxFaults <- MaxCallFaults, listed <- seen, losses <- lost

Lists == INSTANCE PagedList WITH MaxTime <- MaxListTime, Limit <- ListLimit

ASSUME ScreensAssumption ==
  /\ Design!WorkflowDesignerAssumption
  /\ Chat!ChatScreenAssumption
  /\ Queue!UploadQueueAssumption
  /\ Lists!PagedListAssumption

=============================================================================
