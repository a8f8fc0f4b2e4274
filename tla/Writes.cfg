\* Three policies and read_only, two calls, one change by others.
SPECIFICATION Spec
CONSTANTS
  Policy = {{}, {"mail_drafts", "mail_triage", "todo_write"}, {"calendar_write"}}
  PageCap = 2
  MaxSends = 2
  MaxCalls = 2
  MaxEdits = 1
INVARIANTS RepeatsChangeNothing AnswersAreTrue
PROPERTIES OnlyDraftsAreTouched NothingMailedWithoutMailSend TasksGoToTheDefaultList
CHECK_DEADLOCK FALSE
