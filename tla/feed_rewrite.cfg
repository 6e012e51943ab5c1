\* The worker and the API are separate processes, as in docker-compose.yml.
CONSTANTS
  Notices = {n1, n2}
  None = None
  Shown = 1
  OneProcess = FALSE
SPECIFICATION Spec
INVARIANTS
  NoticeKept
