SPECIFICATION FairSpec
CONSTANTS
  Tabs = {t1, t2}
  Posts = {p1, p2}
  NoPost = NoPost
  NoValue = NoValue
  NotLoaded = NotLoaded
  Picked = {"dark", "system"}
  Toggled = {"collapsed"}
  MaxOps = 2
INVARIANTS
  ChoiceSurvives
  ShownIsPreferred
  FirstPaintMatches
  SavedOrOnItsWay
PROPERTIES
  Saved
