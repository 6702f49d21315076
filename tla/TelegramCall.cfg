\* One call of Publish for posts with up to three pictures.
CONSTANTS
  Images = {web, upload, private, page}
  web = web
  upload = upload
  private = private
  page = page
  Place <- OneOfEach
  SiteUrl = FALSE
  GroupMax = 2
  Drafts <- SomeDrafts
  Calls = {c1}
  Timeout = 2
  MaxRetryAfter = 1
  MaxRetries = 2
  NoMessage = NoMessage
SPECIFICATION FairSpec
INVARIANTS
  OncePerCall
  LinkIsPrimary
  PhotosAreTheFirst
PROPERTIES
  KeepsPromiseEventually
